---- MODULE Spec2Model ----
(***************************************************************************)
(* A model of the daily-briefing tool: the content store (database.py),    *)
(* the concurrent processing engine (scripts/concurrent_process.py), the   *)
(* sequential processing path (summarizer.py with the provider clients)    *)
(* and the briefing composer (briefing/composer.py).                       *)
(***************************************************************************)
EXTENDS Integers, Sequences, FiniteSets, TLC

(***************************************************************************)
(* Bounds of the model.                                                    *)
(***************************************************************************)
NItems == 2            \* content items in the store of an engine run
MaxRuns == 2           \* engine runs in a row
MaxDbFaults == 1       \* store writes that may raise
NSmall == 4            \* rows of a small store the composer reads
NLarge == 22           \* rows of a large store the composer reads
MaxDates == 2          \* briefing dates
MaxReprocess == 1      \* times an item is processed again by id
MaxProgress == 8       \* ceiling of the backlog progress counter
MaxBatch == 12         \* processable items of a small batch to partition
NBacklog == 90         \* processable items of a bulk backlog to partition
NSends == 2            \* send-briefing invocations that may run side by side
MaxDays == 8           \* days on which the daily send-briefing runs

(***************************************************************************)
(* Program constants.                                                      *)
(***************************************************************************)
MIN_WORD_COUNT == 500
MAX_RETRIES == 3
BACKLOG_DAYS == 14
DEEP_DIVE_MIN_WORDS == 12000
DEEP_DIVE_LONG_FORM == 18000
DEEP_DIVE_MIN_INSIGHTS == 5
SUMMARY_SUFFICIENT_MAX_WORDS == 1500
MAX_ITEMS == 18
MAX_DEEP_DIVES == 3
MAX_PER_SOURCE == 2
MAX_PER_SOURCE_WITH_DEEP_DIVE == 3
MAX_AGE_WEEKS == 6

None == [none |-> TRUE]

Tiers == {"deep_dive", "worth_a_look", "summary_sufficient"}

VARIABLES
  \* ---- the store (database.py) ----
  content,      \* content_items: id -> [source_id, word_count, transcript, published_at, status]
  processed,    \* processed_content: id -> row, for the ids that have a row
  now,          \* the current day
  \* ---- the concurrent engine (concurrent_process.py) ----
  runPc,        \* where run() is
  runNo,        \* which run of the engine this is
  args,         \* the parsed command line of this run
  processable,  \* run()'s list of processable items
  callers,      \* [gemini, openai]: whether each caller was initialised
  worker,       \* process_one tasks: item id -> [prov, pc, attempt, res]
  sem,          \* free slots of each provider's semaphore
  db_queue,     \* the asyncio.Queue of result messages
  unfinished,   \* the queue's count of unfinished tasks (put minus task_done)
  writerPc,     \* the db_writer task
  stats,        \* run()'s statistics
  skip_reasons, \* run()'s count of skipped items by reason
  \* ---- history of the run, for the properties ----
  loaded,       \* ids get_pending_content returned to this run
  enqueued,     \* id -> result messages put on the queue in this run
  applied,      \* id -> result messages taken off the queue by db_writer in this run
  storeWrites,  \* the store writes of this run: [by: the task, at: where run() was]
  faulted,      \* ids whose store write raised in this run
  lost,         \* ids dispatched by an interrupted run whose result was not applied
  available,    \* [gemini, openai]: whether this run found each provider's key set and
                \* its caller's constructor working
  \* ---- the store's briefing tables and the composer's caller ----
  briefings,    \* daily_briefings: briefing_date -> the saved DailyBriefing
  progress,     \* backlog_progress: None, or the row [total_items, delivered_items]
  ret,          \* what the last compose() returned, None before the first call
  lastOp,       \* the operation that ran last
  reprocessed,  \* how many times an item was processed again by id
  \* ---- the sequential processing path (summarizer.py, llm_client.py) ----
  syncPc,       \* where process_pending() is
  pendingList,  \* the pending items process_pending() has still to process
  syncStats,    \* process_pending()'s statistics
  timedOut,     \* ids whose provider call exceeded the request timeout
  llm,          \* LLMClient: [primary, fallback], the providers in their current roles
  llmLog,       \* the client's last generate(): [first, before, after, calls, res, last_ok]
  \* ---- one generate() invocation of an async caller, followed call by call ----
  gen,          \* [prov, script, attempt, calls, pc, result]
  \* ---- one _calibrate_tier() call ----
  cal,          \* [item, llm_tier, content_type, key_insights, freshness, pc, tier]
  \* ---- send-briefing invocations that run side by side ----
  sending,      \* invocation -> None, or the briefing its compose() returned
  \* ---- one prompt on its way to the providers ----
  trunc         \* [llm, template, text, pc, budget, kept, out, prompt, sent]

storeVars == <<content, processed, now>>
composerVars == <<briefings, progress, ret, lastOp, reprocessed>>
syncVars == <<syncPc, pendingList, syncStats, timedOut, llm, llmLog>>
generateVars == <<gen>>
calibrateVars == <<cal>>
sendVars == <<sending>>
truncVars == <<trunc>>
reportVars == <<skip_reasons>>
nonEngineVars == <<composerVars, syncVars, generateVars, calibrateVars, sendVars, truncVars, reportVars>>
engineVars == <<runPc, runNo, args, processable, callers, worker, sem, db_queue,
                unfinished, writerPc, stats>>
historyVars == <<loaded, enqueued, applied, storeWrites, faulted, lost, available>>
vars == <<storeVars, engineVars, historyVars, composerVars, syncVars, generateVars, calibrateVars, sendVars, truncVars,
          reportVars>>

(***************************************************************************)
(* Helpers on sequences.                                                   *)
(***************************************************************************)
Range(s) == {s[k] : k \in 1..Len(s)}

Take(s, n) == SubSeq(s, 1, IF n < Len(s) THEN n ELSE Len(s))

Drop(s, n) == SubSeq(s, n + 1, Len(s))

Perms(s) ==
  {p \in [1..Len(s) -> Range(s)] : \A x \in Range(s) : \E k \in 1..Len(s) : p[k] = x}

(***************************************************************************)
(* The store.                                                              *)
(***************************************************************************)
Ids == DOMAIN content

\* ORDER BY published_at DESC over the ids S (rows of one date in id order)
ByPublishedDesc(S) ==
  SortSeq(SelectSeq([i \in 1..Cardinality(Ids) |-> i], LAMBDA i : i \in S),
          LAMBDA i, j : \/ content[i].published_at > content[j].published_at
                        \/ content[i].published_at = content[j].published_at /\ i < j)

\* a variant of the query without its WHERE status = 'pending'
GetContentOfAnyStatus(limit) ==
  LET rows == ByPublishedDesc(Ids)
  IN IF limit # 0 THEN Take(rows, limit) ELSE rows

get_pending_content(limit) ==
  LET rows == ByPublishedDesc({i \in Ids : content[i].status = "pending"})
  IN IF limit # 0 THEN Take(rows, limit) ELSE rows

update_content_status(c, id, status) == [c EXCEPT ![id].status = status]

\* INSERT OR REPLACE on the primary key content_id
save_processed(p, id, row) ==
  [i \in (DOMAIN p) \cup {id} |-> IF i = id THEN row ELSE p[i]]

(***************************************************************************)
(* Summarizer: tier calibration and the parse of a provider's answer.      *)
(***************************************************************************)
VALID_TIERS == {"deep_dive", "worth_a_look", "summary_sufficient"}
VALID_FRESHNESS == {"fresh", "evergreen", "stale"}
VALID_CONTENT_TYPES == {"market_call", "news_analysis", "industry_trend",
                        "framework", "tutorial", "interview", "commentary"}
DEEP_SOURCES == {"dwarkesh-patel", "lennys-podcast", "stratechery"}

\* a variant of _calibrate_tier that tries the stale rule before the word-count rules
CalibrateStaleFirst(item, llm_tier, content_type, key_insights, freshness) ==
  IF freshness = "stale" /\ llm_tier = "deep_dive"
    THEN "worth_a_look"
  ELSE IF item.word_count >= DEEP_DIVE_LONG_FORM /\ llm_tier # "deep_dive"
    THEN "deep_dive"
  ELSE IF item.word_count >= DEEP_DIVE_MIN_WORDS /\ llm_tier # "deep_dive"
          /\ (item.source_id \in {"dwarkesh-patel", "lennys-podcast", "stratechery"}
                \/ content_type = "interview" \/ key_insights >= DEEP_DIVE_MIN_INSIGHTS)
    THEN "deep_dive"
  ELSE IF item.word_count <= SUMMARY_SUFFICIENT_MAX_WORDS /\ llm_tier # "summary_sufficient"
    THEN "summary_sufficient"
  ELSE llm_tier

\* a calibration without the long-form rule
CalibrateWithoutLongForm(item, llm_tier, content_type, key_insights, freshness) ==
  IF item.word_count >= DEEP_DIVE_MIN_WORDS /\ item.source_id \in DEEP_SOURCES
       /\ llm_tier # "deep_dive"
    THEN "deep_dive"
  ELSE IF item.word_count >= DEEP_DIVE_MIN_WORDS /\ content_type = "interview"
          /\ llm_tier # "deep_dive"
    THEN "deep_dive"
  ELSE IF item.word_count >= DEEP_DIVE_MIN_WORDS /\ key_insights >= DEEP_DIVE_MIN_INSIGHTS
          /\ llm_tier # "deep_dive"
    THEN "deep_dive"
  ELSE IF item.word_count <= SUMMARY_SUFFICIENT_MAX_WORDS /\ llm_tier # "summary_sufficient"
    THEN "summary_sufficient"
  ELSE IF freshness = "stale" /\ llm_tier = "deep_dive"
    THEN "worth_a_look"
  ELSE llm_tier

\* Summarizer._calibrate_tier: the calibrated tier (first matching rule wins)
_calibrate_tier(item, llm_tier, content_type, key_insights, freshness) ==
  IF item.word_count >= DEEP_DIVE_LONG_FORM /\ llm_tier # "deep_dive"
    THEN "deep_dive"
  ELSE IF item.word_count >= DEEP_DIVE_MIN_WORDS /\ item.source_id \in DEEP_SOURCES
          /\ llm_tier # "deep_dive"
    THEN "deep_dive"
  ELSE IF item.word_count >= DEEP_DIVE_MIN_WORDS /\ content_type = "interview"
          /\ llm_tier # "deep_dive"
    THEN "deep_dive"
  ELSE IF item.word_count >= DEEP_DIVE_MIN_WORDS /\ key_insights >= DEEP_DIVE_MIN_INSIGHTS
          /\ llm_tier # "deep_dive"
    THEN "deep_dive"
  ELSE IF item.word_count <= SUMMARY_SUFFICIENT_MAX_WORDS /\ llm_tier # "summary_sufficient"
    THEN "summary_sufficient"
  ELSE IF freshness = "stale" /\ llm_tier = "deep_dive"
    THEN "worth_a_look"
  ELSE llm_tier

\* Summarizer._parse_response: None on a missing core_summary, otherwise a new,
\* undelivered ProcessedContent; key_insights is the number of insights
_parse_response(item, data) ==
  IF ~data.core_summary THEN None
  ELSE LET content_type == IF data.content_type \in VALID_CONTENT_TYPES
                           THEN data.content_type ELSE "commentary"
           freshness == IF data.freshness \in VALID_FRESHNESS
                        THEN data.freshness ELSE "fresh"
           llm_tier == IF data.tier \in VALID_TIERS
                       THEN data.tier ELSE "summary_sufficient"
       IN [tier |-> _calibrate_tier(item, llm_tier, content_type,
                                    data.key_insights, freshness),
           freshness |-> freshness,
           is_backlog |-> (now - item.published_at) > BACKLOG_DAYS,
           delivered |-> FALSE]

Response(summary, tier, freshness) ==
  [core_summary |-> summary, tier |-> tier, content_type |-> "commentary",
   key_insights |-> 3, freshness |-> freshness]

\* the parsed JSON a provider may answer with in an engine run
Responses ==
  {Response(TRUE, "worth_a_look", "fresh"), Response(FALSE, "worth_a_look", "fresh")}

(***************************************************************************)
(* The concurrent engine.                                                  *)
(***************************************************************************)
\* the command lines tried: --gemini-share (in percent), the two concurrency
\* limits, --limit (0: none) and --dry-run
ArgsSet ==
  {[gemini_share |-> 70,  gemini_concurrency |-> 2, openai_concurrency |-> 1,
    limit |-> 0, dry_run |-> FALSE],
   [gemini_share |-> 50,  gemini_concurrency |-> 1, openai_concurrency |-> 2,
    limit |-> 0, dry_run |-> FALSE],
   [gemini_share |-> 100, gemini_concurrency |-> 2, openai_concurrency |-> 1,
    limit |-> 2, dry_run |-> FALSE],
   [gemini_share |-> 0,   gemini_concurrency |-> 1, openai_concurrency |-> 1,
    limit |-> 0, dry_run |-> FALSE],
   [gemini_share |-> 70,  gemini_concurrency |-> 2, openai_concurrency |-> 1,
    limit |-> 0, dry_run |-> TRUE]}

NoArgs == [gemini_share |-> 0, gemini_concurrency |-> 1, openai_concurrency |-> 1,
           limit |-> 0, dry_run |-> FALSE]

NoSkips == [no_transcript |-> 0, paywall |-> 0, too_short |-> 0]

ZeroStats == [processed |-> 0, failed |-> 0, skipped |-> 0,
              gemini_ok |-> 0, gemini_fail |-> 0,
              openai_ok |-> 0, openai_fail |-> 0, db_errors |-> 0]

\* the item kinds a fetcher may have stored for the engine
ItemKinds ==
  {[transcript |-> "none",    word_count |-> 0],
   [transcript |-> "paywall", word_count |-> 120],
   [transcript |-> "text",    word_count |-> 300],
   [transcript |-> "text",    word_count |-> 2000]}

\* a variant of the pre-filter that tests the length before the paywall
PreFilterLengthFirst(item) ==
  IF item.transcript = "none" THEN "no_transcript"
  ELSE IF item.word_count < MIN_WORD_COUNT THEN "skipped"
  ELSE IF item.transcript = "paywall" THEN "paywall"
  ELSE "processable"

\* run(), section 1: the class the pre-filter gives an item
PreFilter(item) ==
  IF item.transcript = "none" THEN "no_transcript"
  ELSE IF item.transcript = "paywall" THEN "paywall"
  ELSE IF item.word_count < MIN_WORD_COUNT THEN "skipped"
  ELSE "processable"

\* the store after the loop over the loaded items (an id is loaded once)
PreFilterStore(c, pending) ==
  [i \in DOMAIN c |->
     IF i \in Range(pending) /\ PreFilter(c[i]) # "processable"
     THEN update_content_status(c, i, PreFilter(c[i]))[i]
     ELSE c[i]]

ResetRun ==
  /\ processable' = <<>>
  /\ callers' = [gemini |-> FALSE, openai |-> FALSE]
  /\ worker' = <<>>
  /\ sem' = [gemini |-> 0, openai |-> 0]
  /\ db_queue' = <<>>
  /\ unfinished' = 0
  /\ writerPc' = "none"

\* run(), sections 1 and 2: load, pre-filter, the two early returns
RunLoad(a) ==
  /\ runPc = "start"
  /\ LET pending == get_pending_content(a.limit)
         ok == SelectSeq(pending, LAMBDA i : PreFilter(content[i]) = "processable")
     IN /\ args' = a
        /\ loaded' = Range(pending)
        /\ content' = PreFilterStore(content, pending)
        /\ stats' = [ZeroStats EXCEPT !.skipped = Len(pending) - Len(ok)]
        /\ skip_reasons' =
             [no_transcript |-> Len(SelectSeq(pending,
                                  LAMBDA i : PreFilter(content[i]) = "no_transcript")),
              paywall |-> Len(SelectSeq(pending, LAMBDA i : PreFilter(content[i]) = "paywall")),
              too_short |-> Len(SelectSeq(pending, LAMBDA i : PreFilter(content[i]) = "skipped"))]
        /\ processable' = ok
        /\ runPc' = IF ok = <<>> \/ a.dry_run THEN "returned" ELSE "providers"
        /\ storeWrites' = IF Len(ok) < Len(pending)
                          THEN storeWrites \cup {[by |-> "run", at |-> runPc]}
                          ELSE storeWrites
  /\ UNCHANGED <<composerVars, syncVars, generateVars, calibrateVars, sendVars, truncVars, processed, now, runNo, callers, worker,
                 sem, db_queue, unfinished, writerPc, enqueued, applied, faulted, lost,
                 available>>

\* run(), section 3: a caller exists when its key is set, its share is not nil
\* and its constructor did not raise
RunInitProviders(geminiUp, openaiUp) ==
  /\ runPc = "providers"
  /\ LET g == geminiUp /\ args.gemini_share > 0
         o == openaiUp /\ args.gemini_share < 100
     IN /\ callers' = [gemini |-> g, openai |-> o]
        /\ runPc' = IF ~g /\ ~o THEN "returned" ELSE "partition"
        /\ args' = IF ~g /\ ~o THEN args
                   ELSE IF ~g THEN [args EXCEPT !.gemini_share = 0]
                   ELSE IF ~o THEN [args EXCEPT !.gemini_share = 100]
                   ELSE args
  /\ available' = [gemini |-> geminiUp, openai |-> openaiUp]
  /\ UNCHANGED <<nonEngineVars, storeVars, runNo, processable, worker, sem, db_queue, unfinished,
                 writerPc, stats, loaded, enqueued, applied, storeWrites, faulted, lost>>

(***************************************************************************)
(* --gemini-share is a Python float (argparse type=float) and the split    *)
(* index is int(len(processable) * args.gemini_share): a product of IEEE   *)
(* 754 doubles, rounded to nearest (ties to even), then truncated.  The    *)
(* model writes a share in percent (70 for "--gemini-share 0.7") and       *)
(* computes with exact binary fixed-point numbers: a sequence of limbs of  *)
(* LIMB_BITS bits, lowest first, with FRAC_LIMBS limbs after the point.    *)
(***************************************************************************)
MANT_BITS == 53
LIMB_BITS == 14
FRAC_LIMBS == 5

LIMB == 2 ^ LIMB_BITS

\* bit j of x, counted from 1 at the low end
Bit(x, j) == (x[((j - 1) \div LIMB_BITS) + 1] \div (2 ^ ((j - 1) % LIMB_BITS))) % 2

\* the position of the highest set bit of x, 0 for zero
BitLength(x) ==
  LET set == {j \in 1..(Len(x) * LIMB_BITS) : Bit(x, j) = 1}
  IN IF set = {} THEN 0 ELSE CHOOSE j \in set : \A h \in set : h <= j

\* x * n + carry, for a small n
RECURSIVE MulSmall(_, _, _)
MulSmall(x, n, carry) ==
  IF x = <<>>
  THEN IF carry = 0 THEN <<>> ELSE <<carry % LIMB>> \o MulSmall(<<>>, n, carry \div LIMB)
  ELSE LET v == Head(x) * n + carry
       IN <<v % LIMB>> \o MulSmall(Tail(x), n, v \div LIMB)

\* the long division of x by a small d, from limb k downwards: [q, r]
RECURSIVE DivSmall(_, _, _, _, _)
DivSmall(x, k, d, rem, q) ==
  IF k = 0 THEN [q |-> q, r |-> rem]
  ELSE LET v == LIMB * rem + x[k]
       IN DivSmall(x, k - 1, d, v % d, <<v \div d>> \o q)

\* x with v added to limb i
RECURSIVE AddAt(_, _, _)
AddAt(x, i, v) ==
  IF v = 0 THEN x
  ELSE IF i > Len(x) THEN Append(x, v)
  ELSE AddAt([x EXCEPT ![i] = (x[i] + v) % LIMB], i + 1, (x[i] + v) \div LIMB)

\* the double nearest to the number x (plus a nonzero rest below its lowest bit
\* when sticky): MANT_BITS significant bits, round to nearest, ties to even
RoundToDouble(x, sticky) ==
  LET k == BitLength(x) - MANT_BITS
  IN IF k <= 0 THEN x
     ELSE LET rest == sticky \/ \E j \in 1..(k - 1) : Bit(x, j) = 1
              up == Bit(x, k) = 1 /\ (rest \/ Bit(x, k + 1) = 1)
              a == k \div LIMB_BITS
              c == k % LIMB_BITS
              kept == [i \in 1..Len(x) |->
                         IF i <= a THEN 0
                         ELSE IF i = a + 1 THEN (x[i] \div (2 ^ c)) * (2 ^ c)
                         ELSE x[i]]
          IN IF up THEN AddAt(kept, a + 1, 2 ^ c) ELSE kept

\* float("0.70"): the double nearest to pct / 100
FloatOfShare(pct) ==
  LET num == [i \in 1..(FRAC_LIMBS + 1) |-> IF i = FRAC_LIMBS + 1 THEN pct ELSE 0]
      d == DivSmall(num, Len(num), 100, 0, <<>>)
  IN RoundToDouble(d.q, d.r # 0)

RECURSIVE LimbsToInt(_)
LimbsToInt(x) == IF x = <<>> THEN 0 ELSE Head(x) + LIMB * LimbsToInt(Tail(x))

\* int(n * share) in double arithmetic, for the share of pct percent
FloatSplit(n, pct) ==
  LET product == RoundToDouble(MulSmall(FloatOfShare(pct), n, 0), FALSE)
  IN LimbsToInt(SubSeq(product, FRAC_LIMBS + 1, Len(product)))

\* the values of --gemini-share tried, in percent
Shares == {0, 29, 50, 70, 100}

\* the lengths the list of processable items takes
BatchSizes == (0..MaxBatch) \cup (0..NItems) \cup {NBacklog}

\* int(len(processable) * args.gemini_share), for every length and share tried
SplitIndex == [n \in BatchSizes, pct \in Shares |-> FloatSplit(n, pct)]

\* run(), section 4: the two batches of a shuffled list
Partition(shuffled, share, cs) ==
  LET split_idx == SplitIndex[Len(shuffled), share]
      g0 == IF cs.gemini THEN Take(shuffled, split_idx) ELSE <<>>
      o0 == IF cs.openai THEN Drop(shuffled, split_idx) ELSE shuffled
  IN IF ~cs.gemini THEN [gemini |-> <<>>, openai |-> shuffled]
     ELSE IF ~cs.openai THEN [gemini |-> shuffled, openai |-> <<>>]
     ELSE [gemini |-> g0, openai |-> o0]

\* run(), sections 4 to 6: shuffle, partition, create the queue, the semaphores,
\* the writer task and one process_one task per item
RunLaunch(shuffled) ==
  /\ runPc = "partition"
  /\ shuffled \in Perms(processable)
  /\ LET batch == Partition(shuffled, args.gemini_share, callers)
         tasks == (IF callers.gemini THEN Range(batch.gemini) ELSE {})
                  \cup (IF callers.openai THEN Range(batch.openai) ELSE {})
     IN worker' = [i \in tasks |->
                     [prov |-> IF callers.gemini /\ i \in Range(batch.gemini)
                               THEN "gemini" ELSE "openai",
                      pc |-> "created", attempt |-> 0, res |-> "pending"]]
  /\ sem' = [gemini |-> args.gemini_concurrency, openai |-> args.openai_concurrency]
  /\ db_queue' = <<>>
  /\ unfinished' = 0
  /\ writerPc' = "running"
  /\ runPc' = "gather"
  /\ UNCHANGED <<nonEngineVars, storeVars, runNo, args, processable, callers, stats, historyVars>>

\* a handler that treats the zero-quota signal as any other rate limit
AsyncGenerateStepRetryingQuota(prov, attempt, outcome) ==
  IF outcome = "json_ok" THEN "return_dict"
  ELSE IF attempt + 1 < MAX_RETRIES THEN "retry"
  ELSE "return_none"

\* a variant of the retry loop that goes round once more than max_retries
AsyncGenerateStepOneMore(prov, attempt, outcome) ==
  IF outcome = "json_ok" THEN "return_dict"
  ELSE IF outcome = "zero_quota" THEN "return_none"
  ELSE IF attempt + 1 <= MAX_RETRIES THEN "retry"
  ELSE "return_none"

\* AsyncGeminiCaller.generate / AsyncOpenAICaller.generate: what one attempt's
\* outcome makes the retry loop do
AsyncGenerateStep(prov, attempt, outcome) ==
  IF outcome = "json_ok" THEN "return_dict"
  ELSE IF outcome = "zero_quota" THEN "return_none"
  ELSE IF attempt + 1 < MAX_RETRIES THEN "retry"
  ELSE "return_none"

\* the seconds generate() sleeps after an attempt's outcome, before it goes
\* round the loop or falls out of it
BackoffWait(prov, attempt, outcome) ==
  IF outcome \in {"json_ok", "zero_quota"} THEN 0
  ELSE IF outcome = "rate_limit" THEN 30 * (attempt + 1)
  ELSE IF outcome = "server_error" THEN 2 ^ attempt
  ELSE IF attempt < MAX_RETRIES - 1 THEN 2 ^ attempt
  ELSE 0

\* what a provider call may do; only Gemini's handler knows the zero-quota signal
Outcomes(prov) ==
  {"json_ok", "bad_json", "rate_limit", "server_error", "other_error"}
    \cup (IF prov = "gemini" THEN {"zero_quota"} ELSE {})

Message(i, row, prov) == [kind |-> "result", item |-> i, processed |-> row, provider |-> prov]

Sentinel == [kind |-> "stop"]

\* a variant of run() that hands every task the Gemini semaphore
ProcessOneAcquireShared(i) ==
  /\ runPc = "gather"
  /\ i \in DOMAIN worker
  /\ worker[i].pc = "created"
  /\ sem["gemini"] > 0
  /\ sem' = [sem EXCEPT !["gemini"] = @ - 1]
  /\ worker' = [worker EXCEPT ![i].pc = "calling"]
  /\ UNCHANGED <<nonEngineVars, storeVars, runPc, runNo, args, processable, callers, db_queue,
                 unfinished, writerPc, stats, historyVars>>

\* process_one: wait for a slot of the provider's semaphore
ProcessOneAcquire(i) ==
  /\ runPc = "gather"
  /\ i \in DOMAIN worker
  /\ worker[i].pc = "created"
  /\ sem[worker[i].prov] > 0
  /\ sem' = [sem EXCEPT ![worker[i].prov] = @ - 1]
  /\ worker' = [worker EXCEPT ![i].pc = "calling"]
  /\ UNCHANGED <<nonEngineVars, storeVars, runPc, runNo, args, processable, callers, db_queue,
                 unfinished, writerPc, stats, historyVars>>

\* a variant of process_one that saves its own result, as Summarizer.process_item does
ProcessOneFinishDirect(i, result) ==
  LET row == IF result = None THEN None ELSE _parse_response(content[i], result)
  IN /\ db_queue' = Append(db_queue, Message(i, row, worker[i].prov))
     /\ unfinished' = unfinished + 1
     /\ enqueued' = [enqueued EXCEPT ![i] = @ + 1]
     /\ sem' = [sem EXCEPT ![worker[i].prov] = @ + 1]
     /\ worker' = [worker EXCEPT ![i].pc = "done",
                                 ![i].res = IF row = None THEN "none" ELSE "parsed"]
     /\ processed' = IF row = None THEN processed ELSE save_processed(processed, i, row)
     /\ content' = update_content_status(content, i,
                                         IF row = None THEN "failed" ELSE "processed")
     /\ storeWrites' = storeWrites \cup {[by |-> "process_one", at |-> runPc]}
     /\ UNCHANGED <<nonEngineVars, now, runPc, runNo, args, processable, callers, writerPc, stats,
                    loaded, applied, faulted, lost, available>>

\* a variant of process_one that never gives its semaphore slot back
ProcessOneFinishKeepingSlot(i, result) ==
  LET row == IF result = None THEN None ELSE _parse_response(content[i], result)
  IN /\ db_queue' = Append(db_queue, Message(i, row, worker[i].prov))
     /\ unfinished' = unfinished + 1
     /\ enqueued' = [enqueued EXCEPT ![i] = @ + 1]
     /\ worker' = [worker EXCEPT ![i].pc = "done",
                                 ![i].res = IF row = None THEN "none" ELSE "parsed"]
     /\ UNCHANGED <<nonEngineVars, storeVars, runPc, runNo, args, processable, callers, writerPc,
                    stats, loaded, applied, storeWrites, faulted, lost, available, sem>>

\* process_one, steps 4 and 5: parse the result, put one message on the queue,
\* leave the semaphore
ProcessOneFinish(i, result) ==
  LET row == IF result = None THEN None ELSE _parse_response(content[i], result)
  IN /\ db_queue' = Append(db_queue, Message(i, row, worker[i].prov))
     /\ unfinished' = unfinished + 1
     /\ enqueued' = [enqueued EXCEPT ![i] = @ + 1]
     /\ sem' = [sem EXCEPT ![worker[i].prov] = @ + 1]
     /\ worker' = [worker EXCEPT ![i].pc = "done",
                                 ![i].res = IF row = None THEN "none" ELSE "parsed"]
     /\ UNCHANGED <<nonEngineVars, storeVars, runPc, runNo, args, processable, callers, writerPc,
                    stats, loaded, applied, storeWrites, faulted, lost, available>>

\* process_one, step 3: one attempt of caller.generate
ProcessOneAttempt(i, outcome, data) ==
  /\ runPc = "gather"
  /\ i \in DOMAIN worker
  /\ worker[i].pc = "calling"
  /\ outcome \in Outcomes(worker[i].prov)
  /\ LET step == AsyncGenerateStep(worker[i].prov, worker[i].attempt, outcome)
     IN IF step = "retry"
        THEN /\ worker' = [worker EXCEPT ![i].attempt = @ + 1]
             /\ UNCHANGED <<nonEngineVars, storeVars, runPc, runNo, args, processable, callers, sem,
                            db_queue, unfinished, writerPc, stats, historyVars>>
        ELSE ProcessOneFinish(i, IF step = "return_dict" THEN data ELSE None)

\* a variant of db_writer's branch that marks every item processed
AppliedStatusAlwaysProcessed(row) == "processed"

\* db_writer: the status a result message gives its item
AppliedStatus(row) == IF row # None THEN "processed" ELSE "failed"

\* a variant of db_writer without the try/except/finally around the store
\* calls: a write that raises ends the task, uncounted and without task_done()
DbWriterApplyUncaught(fault) ==
  /\ writerPc = "running"
  /\ db_queue # <<>>
  /\ Head(db_queue).kind = "result"
  /\ fault \in {"none", "save_processed", "update_content_status"}
  /\ fault # "none" => Cardinality(faulted) < MaxDbFaults
  /\ LET msg == Head(db_queue)
         i == msg.item
     IN /\ fault = "save_processed" => msg.processed # None
        /\ processed' = IF msg.processed # None /\ fault # "save_processed"
                        THEN save_processed(processed, i, msg.processed)
                        ELSE processed
        /\ content' = IF fault # "none" THEN content
                      ELSE update_content_status(content, i, AppliedStatus(msg.processed))
        /\ stats' = IF fault # "none" THEN stats
                    ELSE IF msg.processed # None
                    THEN IF msg.provider = "gemini"
                         THEN [stats EXCEPT !.processed = @ + 1, !.gemini_ok = @ + 1]
                         ELSE [stats EXCEPT !.processed = @ + 1, !.openai_ok = @ + 1]
                    ELSE IF msg.provider = "gemini"
                         THEN [stats EXCEPT !.failed = @ + 1, !.gemini_fail = @ + 1]
                         ELSE [stats EXCEPT !.failed = @ + 1, !.openai_fail = @ + 1]
        /\ faulted' = IF fault # "none" THEN faulted \cup {i} ELSE faulted
        /\ applied' = [applied EXCEPT ![i] = @ + 1]
  /\ db_queue' = Tail(db_queue)
  /\ unfinished' = IF fault # "none" THEN unfinished ELSE unfinished - 1
  /\ writerPc' = IF fault # "none" THEN "crashed" ELSE writerPc
  /\ storeWrites' = storeWrites \cup {[by |-> "db_writer", at |-> runPc]}
  /\ UNCHANGED <<nonEngineVars, now, runPc, runNo, args, processable, callers, worker, sem,
                 loaded, enqueued, lost, available>>

\* db_writer: take one result message and apply it; a store call may raise
DbWriterApply(fault) ==
  /\ writerPc = "running"
  /\ db_queue # <<>>
  /\ Head(db_queue).kind = "result"
  /\ fault \in {"none", "save_processed", "update_content_status"}
  /\ fault # "none" => Cardinality(faulted) < MaxDbFaults
  /\ LET msg == Head(db_queue)
         i == msg.item
     IN /\ fault = "save_processed" => msg.processed # None
        /\ processed' = IF msg.processed # None /\ fault # "save_processed"
                        THEN save_processed(processed, i, msg.processed)
                        ELSE processed
        /\ content' = IF fault # "none" THEN content
                      ELSE update_content_status(content, i, AppliedStatus(msg.processed))
        /\ stats' = IF fault # "none" THEN [stats EXCEPT !.db_errors = @ + 1]
                    ELSE IF msg.processed # None
                    THEN IF msg.provider = "gemini"
                         THEN [stats EXCEPT !.processed = @ + 1, !.gemini_ok = @ + 1]
                         ELSE [stats EXCEPT !.processed = @ + 1, !.openai_ok = @ + 1]
                    ELSE IF msg.provider = "gemini"
                         THEN [stats EXCEPT !.failed = @ + 1, !.gemini_fail = @ + 1]
                         ELSE [stats EXCEPT !.failed = @ + 1, !.openai_fail = @ + 1]
        /\ faulted' = IF fault # "none" THEN faulted \cup {i} ELSE faulted
        /\ applied' = [applied EXCEPT ![i] = @ + 1]
  /\ db_queue' = Tail(db_queue)
  /\ unfinished' = unfinished - 1
  /\ storeWrites' = storeWrites \cup {[by |-> "db_writer", at |-> runPc]}
  /\ UNCHANGED <<nonEngineVars, now, runPc, runNo, args, processable, callers, worker, sem, writerPc,
                 loaded, enqueued, lost, available>>

\* db_writer: the sentinel ends the task
DbWriterStop ==
  /\ writerPc = "running"
  /\ db_queue # <<>>
  /\ Head(db_queue).kind = "stop"
  /\ db_queue' = Tail(db_queue)
  /\ unfinished' = unfinished - 1
  /\ writerPc' = "stopped"
  /\ UNCHANGED <<nonEngineVars, storeVars, runPc, runNo, args, processable, callers, worker, sem,
                 stats, historyVars>>

\* run(): asyncio.gather returns once every process_one task is done
RunGathered ==
  /\ runPc = "gather"
  /\ \A i \in DOMAIN worker : worker[i].pc = "done"
  /\ runPc' = "join"
  /\ UNCHANGED <<nonEngineVars, storeVars, runNo, args, processable, callers, worker, sem, db_queue,
                 unfinished, writerPc, stats, historyVars>>

\* run(), section 7: db_queue.join() returns, the sentinel is put
RunJoined ==
  /\ runPc = "join"
  /\ unfinished = 0
  /\ db_queue' = Append(db_queue, Sentinel)
  /\ unfinished' = unfinished + 1
  /\ runPc' = "await_writer"
  /\ UNCHANGED <<nonEngineVars, storeVars, runNo, args, processable, callers, worker, sem, writerPc,
                 stats, historyVars>>

\* a variant of run() that returns right after putting the sentinel, without
\* awaiting the writer task
RunFinishWithoutAwait ==
  /\ runPc = "await_writer"
  /\ runPc' = "returned"
  /\ UNCHANGED <<nonEngineVars, storeVars, runNo, args, processable, callers, worker, sem, db_queue,
                 unfinished, writerPc, stats, historyVars>>

\* run(): the writer task has ended; the statistics are returned
RunFinish ==
  /\ runPc = "await_writer"
  /\ writerPc = "stopped"
  /\ runPc' = "returned"
  /\ UNCHANGED <<nonEngineVars, storeVars, runNo, args, processable, callers, worker, sem, db_queue,
                 unfinished, writerPc, stats, historyVars>>

\* main(): the script is started again on the same store
Rerun ==
  /\ runPc = "returned"
  /\ runNo < MaxRuns
  /\ runNo' = runNo + 1
  /\ runPc' = "start"
  /\ args' = NoArgs
  /\ stats' = ZeroStats
  /\ ResetRun
  /\ loaded' = {}
  /\ enqueued' = [i \in Ids |-> 0]
  /\ applied' = [i \in Ids |-> 0]
  /\ storeWrites' = {}
  /\ faulted' = {}
  /\ lost' = {}
  /\ available' = [gemini |-> FALSE, openai |-> FALSE]
  /\ skip_reasons' = NoSkips
  /\ UNCHANGED <<composerVars, syncVars, generateVars, calibrateVars, sendVars, truncVars, storeVars>>

\* a variant of db_writer that sets the status before it saves the row
HalfAppliedStatusFirst(c, p, msg) ==
  [content |-> update_content_status(c, msg.item, "processed"), processed |-> p]

\* db_writer: the store after the first of the two writes of a parsed result
\* (each write is its own commit): the row is saved, the status not yet set
HalfApplied(c, p, msg) ==
  [content |-> c, processed |-> save_processed(p, msg.item, msg.processed)]

\* main(): the run is interrupted (KeyboardInterrupt out of asyncio.run): every
\* task is cancelled and the script exits; midWrite says that the writer was
\* between its two store writes for the message it had taken
Interrupt(midWrite) ==
  /\ runPc \in {"providers", "partition", "gather", "join", "await_writer"}
  /\ midWrite =>
       /\ writerPc = "running"
       /\ db_queue # <<>>
       /\ Head(db_queue).kind = "result"
       /\ Head(db_queue).processed # None
  /\ LET half == IF midWrite THEN HalfApplied(content, processed, Head(db_queue))
                 ELSE [content |-> content, processed |-> processed]
     IN /\ content' = half.content
        /\ processed' = half.processed
  /\ db_queue' = IF midWrite THEN Tail(db_queue) ELSE db_queue
  /\ storeWrites' = IF midWrite THEN storeWrites \cup {[by |-> "db_writer", at |-> runPc]}
                    ELSE storeWrites
  /\ lost' = {i \in DOMAIN worker : applied[i] = 0}
  /\ writerPc' = IF writerPc = "running" THEN "cancelled" ELSE writerPc
  /\ runPc' = "interrupted"
  /\ UNCHANGED <<nonEngineVars, now, runNo, args, processable, callers, worker, sem, unfinished,
                 stats, loaded, enqueued, applied, faulted, available>>

\* main(): the script is started again after an interrupted run
RerunAfterInterrupt ==
  /\ runPc = "interrupted"
  /\ runNo < MaxRuns
  /\ runNo' = runNo + 1
  /\ runPc' = "start"
  /\ args' = NoArgs
  /\ stats' = ZeroStats
  /\ ResetRun
  /\ loaded' = {}
  /\ enqueued' = [i \in Ids |-> 0]
  /\ applied' = [i \in Ids |-> 0]
  /\ storeWrites' = {}
  /\ faulted' = {}
  /\ available' = [gemini |-> FALSE, openai |-> FALSE]
  /\ skip_reasons' = NoSkips
  /\ UNCHANGED <<composerVars, syncVars, generateVars, calibrateVars, sendVars, truncVars, storeVars, lost>>

\* LLMClient.__init__: both providers, Gemini alone, OpenAI alone
LLMClients ==
  <<[primary |-> "gemini", fallback |-> "openai"],
    [primary |-> "gemini", fallback |-> "none"],
    [primary |-> "openai", fallback |-> "none"]>>

\* no _calibrate_tier() call is followed
NoCalibration ==
  [item |-> [word_count |-> 0, source_id |-> "none"], llm_tier |-> "none",
   content_type |-> "none", key_insights |-> 0, freshness |-> "none",
   pc |-> "none", tier |-> "none"]

\* no prompt is followed
NoTruncation ==
  [llm |-> [primary |-> "none", fallback |-> "none"], template |-> 0, text |-> <<>>,
   pc |-> "none", budget |-> 0, kept |-> <<>>, out |-> <<>>, prompt |-> 0, sent |-> <<>>]

\* no generate() invocation is followed
NoCall == [prov |-> "none", script |-> <<>>, attempt |-> 0, calls |-> 0, waits |-> <<>>,
           pc |-> "none", result |-> "pending"]

\* no engine run has started, over a store of the ids S
IdleEngine(S) ==
  /\ runPc = "start"
  /\ runNo = 1
  /\ args = NoArgs
  /\ processable = <<>>
  /\ callers = [gemini |-> FALSE, openai |-> FALSE]
  /\ worker = <<>>
  /\ sem = [gemini |-> 0, openai |-> 0]
  /\ db_queue = <<>>
  /\ unfinished = 0
  /\ writerPc = "none"
  /\ stats = ZeroStats
  /\ loaded = {}
  /\ enqueued = [i \in S |-> 0]
  /\ applied = [i \in S |-> 0]
  /\ storeWrites = {}
  /\ faulted = {}
  /\ lost = {}
  /\ available = [gemini |-> FALSE, openai |-> FALSE]
  /\ skip_reasons = NoSkips
  /\ gen = NoCall
  /\ cal = NoCalibration
  /\ trunc = NoTruncation

\* no briefing was composed or saved
IdleComposer ==
  /\ briefings = <<>>
  /\ ret = None
  /\ lastOp = "init"
  /\ reprocessed = 0
  /\ sending = [p \in 1..NSends |-> None]

\* the client l has been constructed and its generate() not yet called
NoGenerate(l) ==
  [first |-> l.primary, before |-> l, after |-> l, calls |-> <<>>, res |-> "none",
   last_ok |-> "none"]

\* process_pending() has not been called; l is the LLMClient as constructed
IdleSync(l) ==
  /\ syncPc = "idle"
  /\ pendingList = <<>>
  /\ syncStats = [processed |-> 0, failed |-> 0, skipped |-> 0, total |-> 0]
  /\ timedOut = {}
  /\ llm = l
  /\ llmLog = NoGenerate(l)

\* a store of fetched, pending items
PendingStore(kinds) ==
  [i \in DOMAIN kinds |->
     [source_id |-> IF i % 2 = 1 THEN "dwarkesh-patel" ELSE "greg-isenberg",
      word_count |-> kinds[i].word_count,
      transcript |-> kinds[i].transcript,
      published_at |-> 0 - 10 * i,
      status |-> "pending"]]

Init ==
  /\ \E kinds \in [1..NItems -> ItemKinds] : content = PendingStore(kinds)
  /\ processed = <<>>
  /\ now = 0
  /\ progress = None
  /\ IdleEngine(1..NItems)
  /\ IdleComposer
  /\ IdleSync(LLMClients[1])

Next ==
  \/ \E a \in ArgsSet : RunLoad(a)
  \/ \E g \in BOOLEAN, o \in BOOLEAN : RunInitProviders(g, o)
  \/ \E p \in Perms(processable) : RunLaunch(p)
  \/ \E i \in Ids : ProcessOneAcquire(i)
  \/ \E i \in Ids, oc \in Outcomes("gemini"), d \in Responses : ProcessOneAttempt(i, oc, d)
  \/ \E f \in {"none", "save_processed", "update_content_status"} : DbWriterApply(f)
  \/ DbWriterStop
  \/ RunGathered
  \/ RunJoined
  \/ RunFinish
  \/ Rerun

Spec == Init /\ [][Next]_vars

\* the engine with the one process_one task of a run followed through its
\* generate() invocation: the state after the task of item 1, the only
\* processable item, has taken its semaphore slot; the provider's calls answer
\* as the script says
GenerateScripts(prov) == [1..(MAX_RETRIES + 1) -> Outcomes(prov)]

InitGenerate ==
  /\ \E prov \in {"gemini", "openai"} : \E script \in GenerateScripts(prov) :
       /\ gen = [prov |-> prov, script |-> script, attempt |-> 0, calls |-> 0,
                 waits |-> <<>>, pc |-> "loop", result |-> "pending"]
       /\ args = [gemini_share |-> IF prov = "gemini" THEN 100 ELSE 0,
                  gemini_concurrency |-> 1, openai_concurrency |-> 1,
                  limit |-> 0, dry_run |-> FALSE]
       /\ callers = [gemini |-> prov = "gemini", openai |-> prov = "openai"]
       /\ worker = [i \in {1} |-> [prov |-> prov, pc |-> "calling", attempt |-> 0,
                                   res |-> "pending"]]
       /\ sem = [gemini |-> IF prov = "gemini" THEN 0 ELSE 1,
                 openai |-> IF prov = "openai" THEN 0 ELSE 1]
  /\ content = [i \in 1..NItems |->
                  IF i = 1
                  THEN [source_id |-> "dwarkesh-patel", word_count |-> 2000,
                        transcript |-> "text", published_at |-> 0 - 10, status |-> "pending"]
                  ELSE [source_id |-> "greg-isenberg", word_count |-> 120,
                        transcript |-> "paywall", published_at |-> 0 - 10 * i,
                        status |-> "paywall"]]
  /\ processed = <<>>
  /\ now = 0
  /\ progress = None
  /\ runPc = "gather"
  /\ runNo = 1
  /\ processable = <<1>>
  /\ db_queue = <<>>
  /\ unfinished = 0
  /\ writerPc = "running"
  /\ stats = [ZeroStats EXCEPT !.skipped = NItems - 1]
  /\ skip_reasons = [NoSkips EXCEPT !.paywall = NItems - 1]
  /\ loaded = 1..NItems
  /\ enqueued = [i \in 1..NItems |-> 0]
  /\ applied = [i \in 1..NItems |-> 0]
  /\ storeWrites = {[by |-> "run", at |-> "start"]}
  /\ faulted = {}
  /\ lost = {}
  /\ available = callers
  /\ cal = NoCalibration
  /\ trunc = NoTruncation
  /\ IdleComposer
  /\ IdleSync(LLMClients[1])

\* generate(): one pass of the retry loop, with the provider call answering as
\* the script says
GenerateAttempt ==
  /\ gen.pc = "loop"
  /\ gen.calls < Len(gen.script)
  /\ LET outcome == gen.script[gen.calls + 1]
         step == AsyncGenerateStep(gen.prov, gen.attempt, outcome)
         wait == BackoffWait(gen.prov, gen.attempt, outcome)
     IN gen' = IF step = "retry"
               THEN [gen EXCEPT !.calls = @ + 1, !.attempt = @ + 1,
                                !.waits = Append(@, wait)]
               ELSE [gen EXCEPT !.calls = @ + 1, !.pc = "returned",
                                !.waits = Append(@, wait),
                                !.result = IF step = "return_dict" THEN "dict" ELSE "none"]
  /\ UNCHANGED <<storeVars, engineVars, historyVars, composerVars, syncVars, reportVars,
                 calibrateVars, sendVars, truncVars>>

\* process_one, steps 4 and 5, on what generate() returned
ProcessOneResult(data) ==
  /\ gen.pc = "returned"
  /\ runPc = "gather"
  /\ 1 \in DOMAIN worker
  /\ worker[1].pc = "calling"
  /\ ProcessOneFinish(1, IF gen.result = "dict" THEN data ELSE None)

NextGenerate ==
  \/ GenerateAttempt
  \/ \E d \in Responses : ProcessOneResult(d)
  \/ \E f \in {"none", "save_processed", "update_content_status"} : DbWriterApply(f)

SpecGenerate == InitGenerate /\ [][NextGenerate]_vars

\* the engine up to the launch of its tasks, over stores of processable items
\* of several sizes, for some shares given as --gemini-share
PartitionArgs ==
  {[gemini_share |-> sh, gemini_concurrency |-> 1, openai_concurrency |-> 1,
    limit |-> 0, dry_run |-> FALSE] : sh \in Shares}

\* random.shuffle: every order of a short list, three orders of a longer one
Shuffles(s) ==
  IF Len(s) <= 3 THEN Perms(s)
  ELSE {s,
        [k \in 1..Len(s) |-> s[Len(s) + 1 - k]],
        [k \in 1..Len(s) |-> s[(k % Len(s)) + 1]]}

InitPartition ==
  /\ \E n \in (0..MaxBatch) \cup {NBacklog} :
       /\ content = PendingStore([i \in 1..n |-> [transcript |-> "text", word_count |-> 2000]])
       /\ IdleEngine(1..n)
  /\ processed = <<>>
  /\ now = 0
  /\ progress = None
  /\ IdleComposer
  /\ IdleSync(LLMClients[1])

NextPartition ==
  \/ \E a \in PartitionArgs : RunLoad(a)
  \/ \E g \in BOOLEAN, o \in BOOLEAN : RunInitProviders(g, o)
  \/ \E p \in Shuffles(processable) : RunLaunch(p)

SpecPartition == InitPartition /\ [][NextPartition]_vars

\* the engine with runs that may be interrupted
\* _calibrate_tier alone, over word counts on both sides of each threshold
CalibrationWordCounts ==
  {SUMMARY_SUFFICIENT_MAX_WORDS - 700, SUMMARY_SUFFICIENT_MAX_WORDS,
   SUMMARY_SUFFICIENT_MAX_WORDS + 1, DEEP_DIVE_MIN_WORDS - 1, DEEP_DIVE_MIN_WORDS,
   DEEP_DIVE_LONG_FORM - 1, DEEP_DIVE_LONG_FORM, DEEP_DIVE_LONG_FORM + 2000}

CalibrationInputs ==
  [item : [word_count : CalibrationWordCounts,
           source_id : {"dwarkesh-patel", "stratechery", "greg-isenberg"}],
   llm_tier : VALID_TIERS,
   content_type : {"interview", "commentary", "tutorial"},
   key_insights : {DEEP_DIVE_MIN_INSIGHTS - 1, DEEP_DIVE_MIN_INSIGHTS},
   freshness : VALID_FRESHNESS,
   pc : {"called"},
   tier : {"none"}]

InitCalibrate ==
  /\ content = PendingStore([i \in 1..NItems |-> [transcript |-> "text", word_count |-> 2000]])
  /\ processed = <<>>
  /\ now = 0
  /\ progress = None
  /\ IdleComposer
  /\ IdleSync(LLMClients[1])
  /\ \E c \in CalibrationInputs :
       /\ cal = c
       /\ runPc = "start" /\ runNo = 1 /\ args = NoArgs /\ processable = <<>>
       /\ callers = [gemini |-> FALSE, openai |-> FALSE]
       /\ worker = <<>> /\ sem = [gemini |-> 0, openai |-> 0]
       /\ db_queue = <<>> /\ unfinished = 0 /\ writerPc = "none" /\ stats = ZeroStats
       /\ loaded = {} /\ enqueued = [i \in 1..NItems |-> 0]
       /\ applied = [i \in 1..NItems |-> 0]
       /\ storeWrites = {} /\ faulted = {} /\ lost = {}
       /\ available = [gemini |-> FALSE, openai |-> FALSE]
       /\ skip_reasons = NoSkips /\ gen = NoCall /\ trunc = NoTruncation

\* _calibrate_tier runs on its arguments and returns the tier
CalibrateTier ==
  /\ cal.pc = "called"
  /\ cal' = [cal EXCEPT !.pc = "returned",
                        !.tier = _calibrate_tier(cal.item, cal.llm_tier, cal.content_type,
                                                 cal.key_insights, cal.freshness)]
  /\ UNCHANGED <<storeVars, engineVars, historyVars, composerVars, syncVars, generateVars,
                 reportVars, sendVars, truncVars>>

NextCalibrate == CalibrateTier

SpecCalibrate == InitCalibrate /\ [][NextCalibrate]_vars

NextInterrupt ==
  \/ Next
  \/ \E midWrite \in BOOLEAN : Interrupt(midWrite)
  \/ RerunAfterInterrupt

SpecInterrupt == Init /\ [][NextInterrupt]_vars

(***************************************************************************)
(* Properties of the concurrent engine.                                    *)
(***************************************************************************)
Dispatched == DOMAIN worker

RunCompleted == runPc = "returned" /\ writerPc = "stopped"

\* C1: a dispatched item never has more than one result message, the writer
\* never applies more than was enqueued, and when run() has completed every
\* dispatched item has had exactly one message, applied exactly once; an item
\* whose store write did not raise is then processed with a saved
\* ProcessedContent if its worker produced a parsed result and failed if it
\* produced none, so with M parsed results and N without, and no store error,
\* exactly M dispatched items are processed and exactly N are failed.
C1_ExactlyOnceApplied ==
  /\ \A i \in Ids : enqueued[i] <= 1 /\ applied[i] <= enqueued[i]
  /\ RunCompleted =>
       /\ \A i \in Dispatched :
            /\ enqueued[i] = 1
            /\ applied[i] = 1
            /\ i \notin faulted =>
                 /\ worker[i].res = "parsed" =>
                      content[i].status = "processed" /\ i \in DOMAIN processed
                 /\ worker[i].res = "none" => content[i].status = "failed"
       /\ faulted = {} =>
            /\ Cardinality({i \in Dispatched : content[i].status = "processed"})
                 = Cardinality({i \in Dispatched : worker[i].res = "parsed"})
            /\ Cardinality({i \in Dispatched : content[i].status = "failed"})
                 = Cardinality({i \in Dispatched : worker[i].res = "none"})
            /\ stats.processed = Cardinality({i \in Dispatched : worker[i].res = "parsed"})
            /\ stats.failed = Cardinality({i \in Dispatched : worker[i].res = "none"})

\* C1 witness: a completed run with no store error in which one dispatched item
\* produced a parsed result and another produced none.
C1_Witness ==
  /\ RunCompleted
  /\ faulted = {}
  /\ \E i, j \in Dispatched : worker[i].res = "parsed" /\ worker[j].res = "none"

\* C2: every store write made between the launch of the worker tasks and the
\* end of the writer task is made by db_writer.
C2_SingleWriter ==
  \A w \in storeWrites :
    w.at \in {"gather", "join", "await_writer"} => w.by = "db_writer"

\* C2 witness: db_writer has written to the store while a worker's provider
\* call was still in flight.
C2_Witness ==
  /\ [by |-> "db_writer", at |-> "gather"] \in storeWrites
  /\ \E i \in Dispatched : worker[i].pc = "calling"

\* C10: in a later run with no --limit, every item an earlier run marked failed
\* has been loaded again.
C10_FailedItemsLoadedAgain ==
  (runNo >= 2 /\ runPc # "start" /\ args.limit = 0) =>
    \A i \in Ids : content[i].status = "failed" => i \in loaded

ReturnedAfterDispatch == runPc = "returned" /\ writerPc # "none"

\* C12: when run() returns after a dispatch the queue is empty and nothing is
\* unfinished, the writer has applied every message that was enqueued, and the
\* statistics add up: processed + failed + db_errors is the number of
\* dispatched items, the two providers' successes add up to processed and
\* their failures to failed.
C12_ReturnsAfterDrain ==
  ReturnedAfterDispatch =>
    /\ db_queue = <<>>
    /\ unfinished = 0
    /\ \A i \in Ids : applied[i] = enqueued[i]
    /\ stats.processed + stats.failed + stats.db_errors = Cardinality(Dispatched)
    /\ stats.gemini_ok + stats.openai_ok = stats.processed
    /\ stats.gemini_fail + stats.openai_fail = stats.failed

\* C12 witness: run() has returned after dispatching two items, one of which
\* was counted as a store error and the other as processed or failed.
C12_Witness ==
  /\ ReturnedAfterDispatch
  /\ Cardinality(Dispatched) = 2
  /\ stats.db_errors = 1
  /\ stats.processed + stats.failed = 1

\* C14: when a run has been interrupted, every dispatched item whose message
\* the writer applied without a store error has the status its result dictates
\* and every dispatched item whose message was not applied is still pending;
\* at all times an item is processed only if its row is saved (the table holds
\* one row per content id); and the run after an interrupted one loads every
\* item whose result was not applied, up to its --limit.
C14_InterruptedStoreConsistent ==
  /\ runPc = "interrupted" =>
       \A i \in Dispatched :
         /\ (applied[i] = 1 /\ i \notin faulted) =>
              /\ worker[i].res = "parsed" =>
                   content[i].status = "processed" /\ i \in DOMAIN processed
              /\ worker[i].res = "none" => content[i].status = "failed"
         /\ applied[i] = 0 => content[i].status = "pending"
  /\ \A i \in Ids : content[i].status = "processed" => i \in DOMAIN processed
  /\ (runNo >= 2 /\ runPc # "start") =>
       \A i \in lost :
         \/ i \in loaded
         \/ args.limit # 0 /\ Cardinality(loaded) = args.limit

\* C14 witness: the run after an interrupted one has loaded an item whose
\* result the interrupted run had not applied, while another item of the
\* interrupted run had been applied and is processed or failed.
C14_Witness ==
  /\ runNo = 2
  /\ runPc # "start"
  /\ \E i \in lost : i \in loaded
  /\ \E j \in Ids \ lost : content[j].status \in {"processed", "failed"}

\* C15: one generate() invocation makes at most MAX_RETRIES provider calls;
\* it returns a dict exactly when its last call gave valid JSON, and no call
\* before the last gave valid JSON (no call follows a success); if no attempt
\* gave valid JSON it returns None, after all MAX_RETRIES attempts unless the
\* zero-quota signal ended it; and process_one then puts the message with no
\* ProcessedContent on the queue for the item.
C15_GenerateBounded ==
  /\ gen.calls <= MAX_RETRIES
  /\ gen.pc = "returned" =>
       /\ gen.result \in {"dict", "none"}
       /\ gen.result = "dict" <=> gen.script[gen.calls] = "json_ok"
       /\ \A k \in 1..(gen.calls - 1) : gen.script[k] # "json_ok"
       /\ (gen.result = "none" /\ \A k \in 1..gen.calls : gen.script[k] # "zero_quota")
            => gen.calls = MAX_RETRIES
       /\ (1 \in DOMAIN worker /\ worker[1].pc = "done" /\ gen.result = "none") =>
            /\ enqueued[1] = 1
            /\ applied[1] = 0 => db_queue = <<Message(1, None, gen.prov)>>

\* C15 witness: a generate() invocation got malformed JSON, a rate limit and a
\* 5xx in its three calls and returned None, and the item's message without a
\* ProcessedContent is on the queue.
C15_Witness ==
  /\ gen.pc = "returned"
  /\ gen.calls = MAX_RETRIES
  /\ gen.result = "none"
  /\ {gen.script[k] : k \in 1..MAX_RETRIES} = {"bad_json", "rate_limit", "server_error"}
  /\ db_queue = <<Message(1, None, gen.prov)>>

\* the attempts of the generate() invocation that met the zero-quota signal
ZeroQuotaAttempts == {k \in 1..gen.calls : gen.script[k] = "zero_quota"}

C16_AllToTheOtherProvider ==
  (available.gemini # available.openai /\ runPc # "partition") =>
    /\ Dispatched = Range(processable)
    /\ \A i \in Dispatched :
         worker[i].prov = IF available.gemini THEN "gemini" ELSE "openai"

\* C17: when both providers were available and the tasks have been created,
\* with N processable items and the share given on the command line, exactly
\* floor(N * share) items have a Gemini task and the other N - floor(N * share)
\* an OpenAI task, and every processable item has exactly one task.
C17_SplitAtFloor ==
  (available.gemini /\ available.openai /\ runPc = "gather") =>
    LET N == Len(processable)
        floor == (N * args.gemini_share) \div 100
    IN /\ Cardinality({i \in Dispatched : worker[i].prov = "gemini"}) = floor
       /\ Cardinality({i \in Dispatched : worker[i].prov = "openai"}) = N - floor
       /\ Dispatched = Range(processable)

\* C18: once run() has loaded and pre-filtered, every loaded item is in exactly
\* one class, decided in the order no transcript, paywall, fewer than
\* MIN_WORD_COUNT words, processable; a processable item is in run()'s
\* processable list; any other item has the status of its class, has no task
\* and no result message; and skipped and the three reason counts are the
\* numbers of loaded items of those classes.
C18_PreFilterClasses ==
  runPc # "start" =>
    LET NoTranscript == {i \in loaded : content[i].transcript = "none"}
        Paywall == {i \in loaded \ NoTranscript : content[i].transcript = "paywall"}
        TooShort == {i \in loaded \ (NoTranscript \cup Paywall) :
                       content[i].word_count < MIN_WORD_COUNT}
        Skipped == NoTranscript \cup Paywall \cup TooShort
    IN /\ Range(processable) = loaded \ Skipped
       /\ \A i \in NoTranscript : content[i].status = "no_transcript"
       /\ \A i \in Paywall : content[i].status = "paywall"
       /\ \A i \in TooShort : content[i].status = "skipped"
       /\ \A i \in Skipped : i \notin Dispatched /\ enqueued[i] = 0
       /\ stats.skipped = Cardinality(Skipped)
       /\ skip_reasons.no_transcript = Cardinality(NoTranscript)
       /\ skip_reasons.paywall = Cardinality(Paywall)
       /\ skip_reasons.too_short = Cardinality(TooShort)

\* C18 witness: a run has skipped a paywalled item of fewer than MIN_WORD_COUNT
\* words as paywall, counted once, and has dispatched the other loaded item.
C18_Witness ==
  /\ runPc = "gather"
  /\ skip_reasons = [no_transcript |-> 0, paywall |-> 1, too_short |-> 0]
  /\ stats.skipped = 1
  /\ \E i \in loaded, j \in Dispatched :
       /\ content[i].transcript = "paywall"
       /\ content[i].word_count < MIN_WORD_COUNT
       /\ content[i].status = "paywall"
       /\ worker[j].pc = "calling"

\* C19 as stated: every change of an item's status is pending -> no_transcript,
\* paywall or skipped, made without a provider call for the item, or
\* pending -> processing, or processing -> processed or failed; no status that
\* is no_transcript, paywall, skipped, processed or failed changes (so a status
\* changes at most once in a run).
C19_StatusThroughProcessing ==
  [][\A i \in Ids :
       content'[i].status # content[i].status =>
         \/ /\ content[i].status = "pending"
            /\ content'[i].status \in {"no_transcript", "paywall", "skipped"}
            /\ i \notin DOMAIN worker'
         \/ /\ content[i].status = "pending"
            /\ content'[i].status = "processing"
         \/ /\ content[i].status = "processing"
            /\ content'[i].status \in {"processed", "failed"}]_vars

\* C19 as amended: every change of an item's status starts from pending and is
\* either to no_transcript, paywall or skipped, made by the pre-filter for an
\* item that has no task, or straight to processed or failed, made when the
\* writer applies the result of the item's task; no status other than pending
\* ever changes, so a status changes at most once in a run.
C19_StatusStraightToResult ==
  [][\A i \in Ids :
       content'[i].status # content[i].status =>
         /\ content[i].status = "pending"
         /\ \/ /\ content'[i].status \in {"no_transcript", "paywall", "skipped"}
               /\ runPc = "start"
               /\ i \notin DOMAIN worker'
            \/ /\ content'[i].status \in {"processed", "failed"}
               /\ i \in Dispatched
               /\ worker[i].pc = "done"
               /\ applied[i] = 0 /\ applied'[i] = 1]_vars

\* C19 witness: in one run the pre-filter has set an item to skipped and the
\* writer has set a dispatched item, pending until then, to processed.
C19_Witness ==
  /\ runNo = 1
  /\ \E i \in Dispatched, j \in loaded \ Dispatched :
       /\ applied[i] = 1
       /\ content[i].status = "processed"
       /\ content[j].status = "skipped"

\* the process_one tasks of a provider that are inside 'async with semaphore'
InFlight(prov) == {i \in Dispatched : worker[i].prov = prov /\ worker[i].pc = "calling"}

ConcurrencyLimit(prov) ==
  IF prov = "gemini" THEN args.gemini_concurrency ELSE args.openai_concurrency

\* C20: while the tasks run, each provider has at most its own limit of calls
\* in flight, its semaphore's free slots and its calls in flight add up to its
\* limit, and a task waiting for its provider's semaphore can take a slot
\* whenever its own provider has fewer calls in flight than its limit,
\* whatever the other provider's tasks are doing.
C20_IndependentLimits ==
  runPc = "gather" =>
    /\ \A prov \in {"gemini", "openai"} :
         /\ Cardinality(InFlight(prov)) <= ConcurrencyLimit(prov)
         /\ sem[prov] + Cardinality(InFlight(prov)) = ConcurrencyLimit(prov)
    /\ \A i \in Dispatched :
         (worker[i].pc = "created"
            /\ Cardinality(InFlight(worker[i].prov)) < ConcurrencyLimit(worker[i].prov))
           => ENABLED ProcessOneAcquire(i)

\* C20 witness: Gemini's only slot is held by a task that is retrying after a
\* failed call, and the OpenAI task has meanwhile finished.
C20_Witness ==
  /\ runPc = "gather"
  /\ sem["gemini"] = 0
  /\ \E i, j \in Dispatched :
       /\ worker[i].prov = "gemini" /\ worker[i].pc = "calling" /\ worker[i].attempt >= 1
       /\ worker[j].prov = "openai" /\ worker[j].pc = "done"

\* the asyncio event loop runs every task that is ready: run() itself, each
\* process_one task (a provider call returns or raises) and db_writer; whether
\* and with which command line the script is started is left to its user
Fairness ==
  /\ WF_vars(\E g \in BOOLEAN, o \in BOOLEAN : RunInitProviders(g, o))
  /\ WF_vars(\E p \in Perms(processable) : RunLaunch(p))
  /\ \A i \in 1..NItems : WF_vars(ProcessOneAcquire(i))
  /\ \A i \in 1..NItems :
       WF_vars(\E oc \in Outcomes("gemini"), d \in Responses : ProcessOneAttempt(i, oc, d))
  /\ WF_vars(\E f \in {"none", "save_processed", "update_content_status"} : DbWriterApply(f))
  /\ WF_vars(DbWriterStop)
  /\ WF_vars(RunGathered)
  /\ WF_vars(RunJoined)
  /\ WF_vars(RunFinish)

SpecLive == Init /\ [][Next]_vars /\ Fairness

\* C13: every store write that raised is counted in db_errors; a message whose
\* write did not raise has been applied in full (row saved and status set as
\* its result dictates) whatever happened to the other messages; and after a
\* write has raised, run() still returns with the writer ended and every
\* dispatched item's message applied.
C13_BadWriteLosesNothing ==
  /\ [](stats.db_errors = Cardinality(faulted))
  /\ [](\A i \in Dispatched :
          (applied[i] = 1 /\ i \notin faulted) =>
             /\ worker[i].res = "parsed" =>
                  content[i].status = "processed" /\ i \in DOMAIN processed
             /\ worker[i].res = "none" => content[i].status = "failed")
  /\ (faulted # {} /\ runPc # "returned")
       ~> (RunCompleted /\ \A i \in Dispatched : applied[i] = 1)

\* C13 witness: a store write has raised, the writer task is still running,
\* and another item's provider call is still in flight, so that its message
\* is enqueued after the bad write.
C13_Witness ==
  /\ writerPc = "running"
  /\ \E i \in faulted, j \in Dispatched \ faulted :
       /\ applied[i] = 1
       /\ worker[j].pc = "calling"

\* C11: a run() that has started eventually returns, and every item it has
\* dispatched eventually has its result message taken off the queue by the
\* writer, whatever the other items' provider calls did (retries exhausted,
\* unparsable answer, exception).
C11_ForwardProgress ==
  /\ (runPc \notin {"start", "returned"}) ~> (runPc = "returned")
  /\ \A i \in 1..NItems :
       (runPc = "gather" /\ i \in Dispatched) ~> (applied[i] = 1)

\* C11 witness: run() has returned after an item used up all its attempts and
\* got no result while another item of the same provider was processed.
C11_Witness ==
  /\ RunCompleted
  /\ \E i, j \in Dispatched :
       /\ i # j
       /\ worker[i].prov = worker[j].prov
       /\ worker[i].res = "none"
       /\ worker[i].attempt = MAX_RETRIES - 1
       /\ content[j].status = "processed"

C35_StaleNeverDeepDive ==
  (cal.pc = "returned" /\ cal.freshness = "stale") => cal.tier # "deep_dive"

tier_priority(t) ==
  IF t = "deep_dive" THEN 1
  ELSE IF t = "worth_a_look" THEN 2
  ELSE IF t = "summary_sufficient" THEN 3
  ELSE 99

\* list.sort(key=...) and sorted(key=...): s in ascending order of the keys,
\* where k[n] is the key of s[n]; equal keys keep their order (the sort is stable)
SortByKey(s, k) ==
  LET ord == SortSeq([n \in 1..Len(s) |-> n],
                     LAMBDA i, j : k[i] < k[j] \/ (k[i] = k[j] /\ i < j))
  IN [n \in 1..Len(s) |-> s[ord[n]]]

\* Database._row_to_processed on a row joined with its content item
RowToProcessed(i) ==
  [content_id |-> i, source_id |-> content[i].source_id,
   tier |-> processed[i].tier, is_backlog |-> processed[i].is_backlog]

\* ORDER BY CASE tier ... END, published_at DESC of the two pool queries
PoolOrder(S) ==
  LET byDate == ByPublishedDesc(S)
      rows == [n \in 1..Len(byDate) |-> RowToProcessed(byDate[n])]
  IN SortByKey(rows, [n \in 1..Len(rows) |-> IF rows[n].tier = "deep_dive" THEN 1
                                            ELSE IF rows[n].tier = "worth_a_look" THEN 2
                                            ELSE 3])

\* Database.get_undelivered_fresh
get_undelivered_fresh(max_age_weeks) ==
  PoolOrder({i \in DOMAIN processed :
               /\ ~processed[i].delivered
               /\ ~processed[i].is_backlog
               /\ processed[i].freshness # "stale"
               /\ content[i].published_at >= now - 7 * max_age_weeks})

\* Database.get_undelivered_backlog
get_undelivered_backlog(limit) ==
  Take(PoolOrder({i \in DOMAIN processed :
                    /\ ~processed[i].delivered
                    /\ processed[i].is_backlog
                    /\ processed[i].freshness = "evergreen"}),
       limit)

\* a lookup that finds no saved briefing
GetBriefingFindingNone(d) == None

\* Database.get_briefing
get_briefing(d) == IF d \in DOMAIN briefings THEN briefings[d] ELSE None

\* Database.save_briefing: INSERT OR REPLACE, the id is a hash of the date
save_briefing(bs, b) ==
  [d \in DOMAIN bs \cup {b.briefing_date} |->
     IF d = b.briefing_date THEN b ELSE bs[d]]

\* an UPDATE without the WHERE clause
MarkEveryRowDelivered(p, ids) ==
  [i \in DOMAIN p |-> IF ids # <<>> THEN [p[i] EXCEPT !.delivered = TRUE] ELSE p[i]]

\* Database.mark_delivered
mark_delivered(p, ids) ==
  [i \in DOMAIN p |-> IF i \in Range(ids) THEN [p[i] EXCEPT !.delivered = TRUE]
                      ELSE p[i]]

\* an update that stores the increment in place of the sum
UpdateProgressOverwriting(pr, delivered_increment) ==
  IF pr = None THEN pr
  ELSE [pr EXCEPT !.delivered_items = delivered_increment]

\* Database.update_backlog_progress: an UPDATE of the row with id 1, if any
update_backlog_progress(pr, delivered_increment) ==
  IF pr = None THEN pr
  ELSE [pr EXCEPT !.delivered_items = pr.delivered_items + delivered_increment]

\* a tier update that also sets the delivered flag of the rows it writes
UpdateTierAndDeliver(p, ids, tier) ==
  [i \in DOMAIN p |-> IF i \in ids THEN [p[i] EXCEPT !.tier = tier, !.delivered = TRUE]
                      ELSE p[i]]

\* Database.update_processed_tier, for a set of ids
update_processed_tier(p, ids, tier) ==
  [i \in DOMAIN p |-> IF i \in ids THEN [p[i] EXCEPT !.tier = tier] ELSE p[i]]

\* an allocation that asks for no backlog on a light day
BacklogTargetNoneOnLightDay(fresh_count) ==
  IF fresh_count <= 3 THEN 0
  ELSE IF fresh_count <= 6 THEN 5
  ELSE IF fresh_count <= 9 THEN 3
  ELSE 2

\* an allocation that asks for the light-day number whatever the fresh volume
BacklogTargetLightDay(fresh_count) == 8

\* compose(), step 2: the backlog allocation for a fresh volume
backlog_target(fresh_count) ==
  IF fresh_count <= 3 THEN 8
  ELSE IF fresh_count <= 6 THEN 5
  ELSE IF fresh_count <= 9 THEN 3
  ELSE 2

\* the keys of by_source, in the order a dict keeps them (first appearance)
RECURSIVE SourceOrder(_, _)
SourceOrder(its, seen) ==
  IF its = <<>> THEN <<>>
  ELSE IF Head(its).source_id \in seen THEN SourceOrder(Tail(its), seen)
  ELSE <<Head(its).source_id>>
         \o SourceOrder(Tail(its), seen \cup {Head(its).source_id})

OfSource(its, src) == SelectSeq(its, LAMBDA x : x.source_id = src)

ByTierPriority(its) ==
  SortByKey(its, [n \in 1..Len(its) |-> tier_priority(its[n].tier)])

\* _enforce_source_diversity: what is kept of one source's items
KeptOfSource(source_items) ==
  LET sorted == ByTierPriority(source_items)
      keep == SelectSeq([n \in 1..Len(sorted) |-> n],
                        LAMBDA n : \/ n - 1 < MAX_PER_SOURCE
                                   \/ /\ n - 1 < MAX_PER_SOURCE_WITH_DEEP_DIVE
                                      /\ sorted[n].tier = "deep_dive")
  IN [n \in 1..Len(keep) |-> sorted[keep[n]]]

RECURSIVE KeptOverSources(_, _)
KeptOverSources(srcs, its) ==
  IF srcs = <<>> THEN <<>>
  ELSE KeptOfSource(OfSource(its, Head(srcs))) \o KeptOverSources(Tail(srcs), its)

\* BriefingComposer._enforce_source_diversity
_enforce_source_diversity(its) == KeptOverSources(SourceOrder(its, {}), its)

\* a ceiling step that keeps the shortest deep dives
CapDeepDivesShortest(its) ==
  LET deep == SelectSeq(its, LAMBDA x : x.tier = "deep_dive")
      rest == SelectSeq(its, LAMBDA x : x.tier # "deep_dive")
  IN IF Len(deep) <= MAX_DEEP_DIVES THEN [items |-> its, demoted |-> {}]
     ELSE LET sortedDeep == SortByKey(deep, [n \in 1..Len(deep) |->
                                               content[deep[n].content_id].word_count])
              kept_deep == Take(sortedDeep, MAX_DEEP_DIVES)
              excess == Drop(sortedDeep, MAX_DEEP_DIVES)
              demoted == [n \in 1..Len(excess) |->
                            [excess[n] EXCEPT !.tier = "worth_a_look"]]
          IN [items |-> kept_deep \o rest \o demoted,
              demoted |-> {excess[n].content_id : n \in 1..Len(excess)}]

\* a ceiling step that demotes nothing
CapDeepDivesKeepingAll(its) == [items |-> its, demoted |-> {}]

\* BriefingComposer._cap_deep_dives: the returned list and the ids whose tier
\* it rewrote, in memory and in the store
_cap_deep_dives(its) ==
  LET deep == SelectSeq(its, LAMBDA x : x.tier = "deep_dive")
      rest == SelectSeq(its, LAMBDA x : x.tier # "deep_dive")
  IN IF Len(deep) <= MAX_DEEP_DIVES THEN [items |-> its, demoted |-> {}]
     ELSE LET sortedDeep == SortByKey(deep, [n \in 1..Len(deep) |->
                                               0 - content[deep[n].content_id].word_count])
              kept_deep == Take(sortedDeep, MAX_DEEP_DIVES)
              excess == Drop(sortedDeep, MAX_DEEP_DIVES)
              demoted == [n \in 1..Len(excess) |->
                            [excess[n] EXCEPT !.tier = "worth_a_look"]]
          IN [items |-> kept_deep \o rest \o demoted,
              demoted |-> {excess[n].content_id : n \in 1..Len(excess)}]

\* a priority sort that cuts nothing off
PrioritizeKeepingAll(its, cap) == ByTierPriority(its)

\* BriefingComposer._prioritize_and_cap
_prioritize_and_cap(its, cap) == Take(ByTierPriority(its), cap)

\* the queues one after the other, no round-robin
QueuesInARow(source_queues) ==
  IF source_queues = <<>> THEN <<>>
  ELSE LET RECURSIVE Cat(_)
           Cat(qs) == IF qs = <<>> THEN <<>> ELSE Head(qs) \o Cat(Tail(qs))
       IN Cat(source_queues)

\* _order_for_display: the round-robin over the source queues
RECURSIVE Interleave(_)
Interleave(source_queues) ==
  IF source_queues = <<>> THEN <<>>
  ELSE LET heads == [n \in 1..Len(source_queues) |-> Head(source_queues[n])]
           tails == [n \in 1..Len(source_queues) |-> Tail(source_queues[n])]
           next_round == SelectSeq(tails, LAMBDA q : q # <<>>)
       IN heads \o Interleave(next_round)

\* _order_for_display: the block of one tier
TierBlock(group) ==
  LET tier_items == SortByKey(group, [n \in 1..Len(group) |->
                                        IF ~group[n].is_backlog THEN 0 ELSE 1])
      srcs == SourceOrder(tier_items, {})
      by_source == [n \in 1..Len(srcs) |-> OfSource(tier_items, srcs[n])]
      source_queues == SortByKey(by_source, [n \in 1..Len(by_source) |->
                                               0 - Len(by_source[n])])
  IN Interleave(source_queues)

OfTier(its, t) == SelectSeq(its, LAMBDA x : x.tier = t)

\* an ordering step that leaves out the last tier group
OrderWithoutLastTier(its) ==
  TierBlock(OfTier(its, "deep_dive")) \o TierBlock(OfTier(its, "worth_a_look"))

\* BriefingComposer._order_for_display
_order_for_display(its) ==
  TierBlock(OfTier(its, "deep_dive")) \o TierBlock(OfTier(its, "worth_a_look"))
    \o TierBlock(OfTier(its, "summary_sufficient"))

\* compose(), steps 1 to 6, for a date without a saved briefing: the briefing,
\* its items as composed, the set after source diversity and the demoted ids
ComposeNew(d) ==
  LET fresh_pool == get_undelivered_fresh(MAX_AGE_WEEKS)
      backlog_pool == get_undelivered_backlog(backlog_target(Len(fresh_pool)))
      diverse == _enforce_source_diversity(fresh_pool \o backlog_pool)
      capped == _cap_deep_dives(diverse)
      all_items == IF Len(capped.items) > MAX_ITEMS
                   THEN _prioritize_and_cap(capped.items, MAX_ITEMS)
                   ELSE capped.items
      ordered == _order_for_display(all_items)
  IN [briefing |-> [briefing_date |-> d,
                    fresh_count |-> Len(SelectSeq(ordered, LAMBDA x : ~x.is_backlog)),
                    backlog_count |-> Len(SelectSeq(ordered, LAMBDA x : x.is_backlog)),
                    total_count |-> Len(ordered),
                    item_ids |-> [n \in 1..Len(ordered) |-> ordered[n].content_id]],
      ordered |-> ordered,
      selected |-> all_items,
      pool |-> fresh_pool \o backlog_pool,
      fresh_pool |-> Len(fresh_pool),
      diverse |-> diverse,
      demoted |-> capped.demoted]

\* Summarizer.process_item on the item i when the provider client answers
\* result (None: no result): the store afterwards and the value returned
process_item(i, result) ==
  LET item == content[i]
      cls == PreFilter(item)
      failed == [content |-> update_content_status(content, i, "failed"),
                 processed |-> processed, result |-> None]
  IN IF cls # "processable"
     THEN [content |-> update_content_status(content, i, cls),
           processed |-> processed, result |-> None]
     ELSE IF result = None THEN failed
     ELSE LET row == _parse_response(item, result)
          IN IF row = None THEN failed
             ELSE [content |-> update_content_status(content, i, "processed"),
                   processed |-> save_processed(processed, i, row),
                   result |-> row]

\* what the provider client answers when an item is processed again
ReprocessResults == {None, Response(TRUE, "deep_dive", "fresh")}

\* cli.py compose, and the first half of send-briefing: BriefingComposer.compose
Compose(d) ==
  /\ LET existing == get_briefing(d)
     IN IF existing # None
        THEN /\ ret' = [briefing |-> existing, recomputed |-> FALSE, ordered |-> <<>>,
                        selected |-> <<>>, pool |-> <<>>,
                        diverse |-> <<>>, demoted |-> {}, fresh_pool |-> 0]
             /\ UNCHANGED processed
        ELSE LET c == ComposeNew(d)
             IN /\ ret' = [briefing |-> c.briefing, recomputed |-> TRUE,
                           ordered |-> c.ordered, selected |-> c.selected,
                           pool |-> c.pool,
                           diverse |-> c.diverse,
                           demoted |-> c.demoted, fresh_pool |-> c.fresh_pool]
                /\ processed' = update_processed_tier(processed, c.demoted, "worth_a_look")
  /\ lastOp' = "compose"
  /\ UNCHANGED <<content, now, briefings, progress, reprocessed>>
  /\ UNCHANGED <<engineVars, historyVars, syncVars, generateVars, calibrateVars, sendVars, truncVars, reportVars>>

\* a send-briefing that saves whatever compose() returned
SaveAndDeliverAlways ==
  /\ lastOp = "compose"
  /\ progress # None /\ ret.briefing.backlog_count > 0
       => progress.delivered_items + ret.briefing.backlog_count <= MaxProgress
  /\ briefings' = save_briefing(briefings, ret.briefing)
  /\ processed' = mark_delivered(processed, ret.briefing.item_ids)
  /\ progress' = IF ret.briefing.backlog_count > 0
                 THEN update_backlog_progress(progress, ret.briefing.backlog_count)
                 ELSE progress
  /\ lastOp' = "save_and_deliver"
  /\ UNCHANGED <<content, now, ret, reprocessed>>
  /\ UNCHANGED <<engineVars, historyVars, syncVars, generateVars, calibrateVars, sendVars, truncVars, reportVars>>

\* the second half of send-briefing, straight after its compose(): nothing is
\* saved for an empty briefing, otherwise BriefingComposer.save_and_deliver
SaveAndDeliver ==
  /\ lastOp = "compose"
  /\ ret.briefing.total_count # 0
  /\ progress # None /\ ret.briefing.backlog_count > 0
       => progress.delivered_items + ret.briefing.backlog_count <= MaxProgress
  /\ briefings' = save_briefing(briefings, ret.briefing)
  /\ processed' = mark_delivered(processed, ret.briefing.item_ids)
  /\ progress' = IF ret.briefing.backlog_count > 0
                 THEN update_backlog_progress(progress, ret.briefing.backlog_count)
                 ELSE progress
  /\ lastOp' = "save_and_deliver"
  /\ UNCHANGED <<content, now, ret, reprocessed>>
  /\ UNCHANGED <<engineVars, historyVars, syncVars, generateVars, calibrateVars, sendVars, truncVars, reportVars>>

\* send-briefing, invocation p, up to its compose(): an empty briefing ends
\* the invocation, any other is kept for the email and the save
SendCompose(p, d) ==
  /\ sending[p] = None
  /\ LET existing == get_briefing(d)
     IN IF existing # None
        THEN /\ sending' = [sending EXCEPT ![p] = existing]
             /\ UNCHANGED processed
        ELSE LET c == ComposeNew(d)
             IN /\ sending' = [sending EXCEPT ![p] = IF c.briefing.total_count = 0
                                                     THEN None ELSE c.briefing]
                /\ processed' = update_processed_tier(processed, c.demoted, "worth_a_look")
  /\ UNCHANGED <<content, now, composerVars>>
  /\ UNCHANGED <<engineVars, historyVars, syncVars, generateVars, calibrateVars, truncVars, reportVars>>

\* send-briefing, invocation p, from the email to the end: save_and_deliver
SendSave(p) ==
  /\ sending[p] # None
  /\ progress # None /\ sending[p].backlog_count > 0
       => progress.delivered_items + sending[p].backlog_count <= MaxProgress
  /\ briefings' = save_briefing(briefings, sending[p])
  /\ processed' = mark_delivered(processed, sending[p].item_ids)
  /\ progress' = IF sending[p].backlog_count > 0
                 THEN update_backlog_progress(progress, sending[p].backlog_count)
                 ELSE progress
  /\ sending' = [sending EXCEPT ![p] = None]
  /\ UNCHANGED <<content, now, ret, lastOp, reprocessed>>
  /\ UNCHANGED <<engineVars, historyVars, syncVars, generateVars, calibrateVars, truncVars, reportVars>>

\* cli.py process --id: process_item on any stored item, whatever its status
ProcessById(i, result) ==
  /\ reprocessed < MaxReprocess
  /\ LET after == process_item(i, result)
     IN /\ content' = after.content
        /\ processed' = after.processed
  /\ reprocessed' = reprocessed + 1
  /\ lastOp' = "process_item"
  /\ UNCHANGED <<now, briefings, progress, ret>>
  /\ UNCHANGED <<engineVars, historyVars, syncVars, generateVars, calibrateVars, sendVars, truncVars, reportVars>>

\* the sources of the stores the composer reads
SourceIds ==
  <<"dwarkesh-patel", "lennys-podcast", "stratechery", "greg-isenberg", "source-05",
    "source-06", "source-07", "source-08", "source-09", "source-10">>

\* the stores the composer starts from: pf.n processed, undelivered rows whose
\* sources follow pf.src, whose backlog flags follow pf.bl, with tiers pf.tiers
ProfileSource(pf, i) ==
  IF pf.src = "one" THEN SourceIds[1]
  ELSE IF pf.src = "two" THEN SourceIds[1 + (i % 2)]
  ELSE IF pf.src = "tail3" THEN (IF i > pf.n - 3 THEN SourceIds[1] ELSE SourceIds[1 + i])
  ELSE SourceIds[1 + ((i - 1) % Len(SourceIds))]

ProfileBacklog(pf, i) ==
  IF pf.bl = "none" THEN FALSE
  ELSE IF pf.bl = "all" THEN TRUE
  ELSE IF pf.bl = "even" THEN i % 2 = 0
  ELSE i > pf.n - 2

TierPatterns(n) ==
  {[i \in 1..n |-> "deep_dive"],
   [i \in 1..n |-> IF i % 3 = 0 THEN "deep_dive"
                   ELSE IF i % 3 = 1 THEN "worth_a_look" ELSE "summary_sufficient"],
   [i \in 1..n |-> IF i % 5 = 0 THEN "deep_dive"
                   ELSE IF i % 2 = 0 THEN "worth_a_look" ELSE "summary_sufficient"],
   [i \in 1..n |-> IF i = 1 THEN "worth_a_look" ELSE "deep_dive"]}

Profiles ==
  {[n |-> NSmall, src |-> s, bl |-> b, tiers |-> t] :
     s \in {"two", "tail3"}, b \in {"none", "all", "even"},
     t \in [1..NSmall -> Tiers]}
  \cup {[n |-> NSmall + 2, src |-> "tail3", bl |-> b, tiers |-> t] :
          b \in {"none", "last2"}, t \in TierPatterns(NSmall + 2)}
  \cup {[n |-> NLarge, src |-> "cyclic", bl |-> b, tiers |-> t] :
          b \in {"none", "last2", "even"}, t \in TierPatterns(NLarge)}

ProfileContent(pf) ==
  [i \in 1..pf.n |->
     [source_id |-> ProfileSource(pf, i),
      word_count |-> 9000 - 600 * (i \div 2),
      transcript |-> "text",
      published_at |-> IF ProfileBacklog(pf, i) THEN 0 - 50 - i ELSE 0 - i,
      status |-> "processed"]]

ProfileProcessed(pf) ==
  [i \in 1..pf.n |->
     [tier |-> pf.tiers[i],
      freshness |-> IF ProfileBacklog(pf, i) THEN "evergreen" ELSE "fresh",
      is_backlog |-> ProfileBacklog(pf, i),
      delivered |-> FALSE]]

\* the composer over a store of processed items; the backlog progress row is
\* there only if init_backlog_progress was once called (here: for the stores
\* whose backlog is a block: with a total of 100 when every item is backlog,
\* with the number of backlog items otherwise)
InitCompose ==
  /\ \E pf \in Profiles :
       /\ content = ProfileContent(pf)
       /\ processed = ProfileProcessed(pf)
       /\ progress = IF pf.bl \in {"all", "last2"}
                     THEN [total_items |->
                             IF pf.bl = "all" THEN 100
                             ELSE Cardinality({i \in 1..pf.n : ProfileBacklog(pf, i)}),
                           delivered_items |-> 0]
                     ELSE None
       /\ IdleEngine(1..pf.n)
  /\ now = 0
  /\ IdleComposer
  /\ IdleSync(LLMClients[1])

NextCompose ==
  \/ \E d \in 1..MaxDates : Compose(d)
  \/ SaveAndDeliver
  \/ \E i \in Ids \cap 1..(NSmall + 2), r \in ReprocessResults : ProcessById(i, r)

SpecCompose == InitCompose /\ [][NextCompose]_vars

\* send-briefing invocations side by side (a scheduled send and one by hand),
\* over the smaller stores
InitSend ==
  /\ \E pf \in {q \in Profiles : q.n <= NSmall + 2} :
       /\ content = ProfileContent(pf)
       /\ processed = ProfileProcessed(pf)
       /\ progress = IF pf.bl \in {"all", "last2"}
                     THEN [total_items |->
                             IF pf.bl = "all" THEN 100
                             ELSE Cardinality({i \in 1..pf.n : ProfileBacklog(pf, i)}),
                           delivered_items |-> 0]
                     ELSE None
       /\ IdleEngine(1..pf.n)
  /\ now = 0
  /\ IdleComposer
  /\ IdleSync(LLMClients[1])

NextSend ==
  \/ \E p \in 1..NSends, d \in 1..MaxDates : SendCompose(p, d)
  \/ \E p \in 1..NSends : SendSave(p)

SpecSend == InitSend /\ [][NextSend]_vars

\* the daily cycle: send-briefing once a day for the day's date, no item
\* fetched or processed in between; besides the composer's stores, a backlog
\* of NLarge items from two sources.  No backlog progress row: nothing calls
\* init_backlog_progress
DrainProfiles ==
  Profiles \cup {[n |-> NLarge, src |-> "two", bl |-> "all", tiers |-> t] :
                   t \in TierPatterns(NLarge)}

InitDrain ==
  /\ \E pf \in DrainProfiles :
       /\ content = ProfileContent(pf)
       /\ processed = ProfileProcessed(pf)
       /\ IdleEngine(1..pf.n)
  /\ progress = None
  /\ now = 0
  /\ IdleComposer
  /\ IdleSync(LLMClients[1])

\* the next day has come
NewDay ==
  /\ lastOp \in {"init", "save_and_deliver", "nothing_to_send"}
  /\ now < MaxDays
  /\ now' = now + 1
  /\ lastOp' = "new_day"
  /\ UNCHANGED <<content, processed, briefings, progress, ret, reprocessed>>
  /\ UNCHANGED <<engineVars, historyVars, syncVars, generateVars, calibrateVars, sendVars, truncVars, reportVars>>

\* send-briefing, without --date: compose(date.today())
DailyCompose == lastOp = "new_day" /\ Compose(now)

\* send-briefing: "No content available for briefing." and return
NothingToSend ==
  /\ lastOp = "compose"
  /\ ret.briefing.total_count = 0
  /\ lastOp' = "nothing_to_send"
  /\ UNCHANGED <<content, processed, now, briefings, progress, ret, reprocessed>>
  /\ UNCHANGED <<engineVars, historyVars, syncVars, generateVars, calibrateVars, sendVars, truncVars, reportVars>>

NextDrain ==
  \/ NewDay
  \/ DailyCompose
  \/ SaveAndDeliver
  \/ NothingToSend

\* the cycle is repeated day after day, and a send-briefing that has started
\* runs to its end.  compose() can run whenever a day has begun, so the weak
\* fairness of DailyCompose is that the cycle is not at the start of a day
\* for ever, which is how it is written
DrainFairness ==
  /\ WF_vars(NewDay)
  /\ []<>(lastOp # "new_day")
  /\ WF_vars(SaveAndDeliver)
  /\ WF_vars(NothingToSend)

SpecDrain == InitDrain /\ [][NextDrain]_vars /\ DrainFairness

(***************************************************************************)
(* Properties of the composer.                                             *)
(***************************************************************************)
Composed == lastOp = "compose"

Recomposed == lastOp = "compose" /\ ret.recomputed

\* how many of the first n items of its have the source of its[n]
SourceRank(its, n) ==
  Cardinality({m \in 1..n : its[m].source_id = its[n].source_id})

\* C3: every briefing compose() returns has total_count <= 18, total_count =
\* fresh_count + backlog_count, and total_count = the length of item_ids.
C3_CountsWithinCap ==
  Composed =>
    /\ ret.briefing.total_count <= 18
    /\ ret.briefing.total_count = ret.briefing.fresh_count + ret.briefing.backlog_count
    /\ ret.briefing.total_count = Len(ret.briefing.item_ids)

\* a composition whose set after source diversity had more than 18 items and
\* whose briefing holds 18, fresh and backlog
C3_Witness ==
  /\ Recomposed
  /\ Len(ret.diverse) > 18
  /\ ret.briefing.total_count = 18
  /\ ret.briefing.fresh_count > 0
  /\ ret.briefing.backlog_count > 0

\* C4: after a composition at most 3 items of the returned briefing have tier
\* deep_dive, in the composed items and in the store (a saved briefing that is
\* returned again is covered as long as none of the items was processed again).
C4_DeepDiveCeiling ==
  (Composed /\ (ret.recomputed \/ reprocessed = 0)) =>
    /\ Cardinality({n \in 1..Len(ret.ordered) : ret.ordered[n].tier = "deep_dive"}) <= 3
    /\ Cardinality({i \in Range(ret.briefing.item_ids) :
                      processed[i].tier = "deep_dive"}) <= 3

\* a composition that demoted an item and kept 3 deep dives
C4_Witness ==
  /\ Recomposed
  /\ ret.demoted # {}
  /\ ret.demoted \subseteq Range(ret.briefing.item_ids)
  /\ Cardinality({i \in Range(ret.briefing.item_ids) : processed[i].tier = "deep_dive"}) = 3

\* C5: in a composed briefing every item of a source beyond that source's
\* second has tier deep_dive, the tier being the one carried after composition.
C5_BeyondSecondIsDeepDive ==
  Recomposed =>
    \A n \in 1..Len(ret.ordered) :
      SourceRank(ret.ordered, n) > 2 =>
        /\ ret.ordered[n].tier = "deep_dive"
        /\ processed[ret.ordered[n].content_id].tier = "deep_dive"

\* C6 as stated: over the whole briefing no two adjacent items share a source
\* unless every item from there to the end of the briefing has that source.
C6_NoAdjacentSameSource ==
  Recomposed =>
    \A n \in 1..(Len(ret.ordered) - 1) :
      ret.ordered[n].source_id = ret.ordered[n + 1].source_id =>
        \A m \in n..Len(ret.ordered) : ret.ordered[m].source_id = ret.ordered[n].source_id

\* C6, amended: within a tier group no two adjacent items share a source unless
\* every item from there to the end of that tier group has that source.
C6_NoAdjacentSameSourceInTier ==
  Recomposed =>
    \A n \in 1..(Len(ret.ordered) - 1) :
      (/\ ret.ordered[n].source_id = ret.ordered[n + 1].source_id
       /\ ret.ordered[n].tier = ret.ordered[n + 1].tier) =>
        \A m \in n..Len(ret.ordered) :
          ret.ordered[m].tier = ret.ordered[n].tier =>
            ret.ordered[m].source_id = ret.ordered[n].source_id

\* a tier group in which the round-robin put another source between the two
\* items of one source
C6_Witness ==
  /\ Recomposed
  /\ \E n \in 1..(Len(ret.ordered) - 2) :
       /\ \A m \in n..(n + 2) : ret.ordered[m].tier = ret.ordered[n].tier
       /\ ret.ordered[n].source_id = ret.ordered[n + 2].source_id
       /\ ret.ordered[n].source_id # ret.ordered[n + 1].source_id

\* C7: a compose() for a date that has a saved briefing returns that briefing,
\* recomputes nothing and writes nothing to the store.
C7_SavedBriefingReturned ==
  [][(lastOp' = "compose" /\ ret'.briefing.briefing_date \in DOMAIN briefings) =>
       /\ ret'.briefing = briefings[ret'.briefing.briefing_date]
       /\ ~ret'.recomputed
       /\ UNCHANGED <<content, processed, briefings, progress>>]_vars

\* a saved briefing returned although a recomputation would select other items
C7_Witness ==
  /\ Composed
  /\ ~ret.recomputed
  /\ ComposeNew(ret.briefing.briefing_date).briefing.item_ids # ret.briefing.item_ids
  /\ ComposeNew(ret.briefing.briefing_date).briefing.total_count > 0

\* C8: an item's delivered flag is true only if the item is in the item_ids of
\* a saved briefing, and once true it never becomes false again.
C8_DeliveredOnlyBySaveAndForGood ==
  [][/\ \A i \in DOMAIN processed' :
          processed'[i].delivered =>
            \E d \in DOMAIN briefings' : i \in Range(briefings'[d].item_ids)
     /\ \A i \in DOMAIN processed :
          processed[i].delivered => processed'[i].delivered]_vars

\* C22: a compose() for a date without a saved briefing writes no briefing
\* row, changes no item's delivered mark and leaves the backlog progress row
\* as it is; a briefing row is written, an item is marked delivered and the
\* progress row is changed only by save_and_deliver.
C22_ComposeCommitsNothing ==
  [][/\ (lastOp' = "compose" /\ ret'.recomputed) =>
          /\ briefings' = briefings
          /\ progress' = progress
          /\ DOMAIN processed' = DOMAIN processed
          /\ \A i \in DOMAIN processed : processed'[i].delivered = processed[i].delivered
     /\ (\/ briefings' # briefings
         \/ progress' # progress
         \/ \E i \in DOMAIN processed' :
              /\ processed'[i].delivered
              /\ ~(i \in DOMAIN processed /\ processed[i].delivered))
          => lastOp' = "save_and_deliver"]_vars

\* C22 witness: a compose() for a date without a saved briefing has selected
\* items and demoted one of them in the store, and nothing is saved or marked.
C22_Witness ==
  /\ Recomposed
  /\ ret.briefing.briefing_date \notin DOMAIN briefings
  /\ ret.briefing.total_count > 0
  /\ ret.briefing.backlog_count > 0
  /\ ret.demoted # {}
  /\ \A i \in Range(ret.briefing.item_ids) : ~processed[i].delivered
  /\ progress # None /\ progress.delivered_items = 0

\* C23: with a progress row in place, a save_and_deliver of a briefing with
\* backlog_count k adds exactly k to delivered_items (nothing for k = 0), no
\* step lowers delivered_items or changes total_items, and from (100, 0) a
\* briefing with backlog_count 4 gives delivered_items 4.
C23_DeliveredItemsGrowByBacklogCount ==
  [][/\ progress # None =>
          /\ progress' # None
          /\ progress'.total_items = progress.total_items
          /\ progress'.delivered_items >= progress.delivered_items
     /\ (lastOp' = "save_and_deliver" /\ progress # None) =>
          progress'.delivered_items = progress.delivered_items + ret.briefing.backlog_count
     /\ (/\ lastOp' = "save_and_deliver"
         /\ progress = [total_items |-> 100, delivered_items |-> 0]
         /\ ret.briefing.backlog_count = 4) => progress'.delivered_items = 4]_vars

\* C23 witness: the progress row that started as (100, 0), after the delivery
\* of the first briefing, which has four backlog items.
C23_Witness ==
  /\ lastOp = "save_and_deliver"
  /\ ret.briefing.backlog_count = 4
  /\ Cardinality(DOMAIN briefings) = 1
  /\ progress = [total_items |-> 100, delivered_items |-> 4]

\* C24: a compose() that finds the fresh pool and the backlog pool empty
\* returns a briefing with total_count, fresh_count and backlog_count 0 and no
\* item_ids, and the send path that got an empty briefing from compose() saves
\* no briefing and marks no item delivered.
C24_EmptyPoolsEmptyBriefing ==
  [][/\ (/\ lastOp' = "compose" /\ ret'.recomputed
         /\ get_undelivered_fresh(MAX_AGE_WEEKS) = <<>>
         /\ get_undelivered_backlog(backlog_target(0)) = <<>>) =>
          /\ ret'.briefing.total_count = 0
          /\ ret'.briefing.fresh_count = 0
          /\ ret'.briefing.backlog_count = 0
          /\ ret'.briefing.item_ids = <<>>
     /\ (lastOp = "compose" /\ ret.briefing.total_count = 0) =>
          /\ lastOp' # "save_and_deliver"
          /\ briefings' = briefings
          /\ \A i \in DOMAIN processed :
               processed'[i].delivered => processed[i].delivered]_vars

\* C24 witness: compose() returned an empty briefing for a date without a
\* saved one, over a store whose items are all delivered.
C24_Witness ==
  /\ Recomposed
  /\ ret.briefing.total_count = 0
  /\ ret.briefing.item_ids = <<>>
  /\ ret.briefing.briefing_date \notin DOMAIN briefings
  /\ briefings # <<>>
  /\ \A i \in DOMAIN processed : processed[i].delivered

\* C25: the item_ids stored for a date never change once a briefing for that
\* date is saved, whatever compose and save_and_deliver steps follow, two
\* send-briefing invocations for one date that both composed before either
\* saved included (the store keeps one briefing per date: the table is keyed
\* by the date).
C25_SavedItemIdsNeverChange ==
  [][\A d \in DOMAIN briefings :
       /\ d \in DOMAIN briefings'
       /\ briefings'[d].item_ids = briefings[d].item_ids]_vars

\* C26: a compose() that directly follows a compose() for the same date, with
\* no briefing saved for the date and no other operation in between, returns
\* the same item_ids in the same order.
C26_ComposeRepeatable ==
  [][(/\ lastOp = "compose" /\ ret.recomputed
      /\ lastOp' = "compose" /\ ret'.recomputed
      /\ ret'.briefing.briefing_date = ret.briefing.briefing_date) =>
       ret'.briefing.item_ids = ret.briefing.item_ids]_vars

\* C27: no content id is in the item_ids of two saved briefings with
\* different dates.
C27_DeliveredInOneBriefing ==
  \A d1, d2 \in DOMAIN briefings :
    d1 # d2 => Range(briefings[d1].item_ids) \cap Range(briefings[d2].item_ids) = {}

\* C28: after compose and save_and_deliver operations alone (no item was
\* processed again), with a progress row in place, delivered_items is the
\* number of backlog items whose delivered flag is true, and so at most the
\* number of backlog items in the store.
C28_ProgressCountsDeliveredBacklog ==
  (progress # None /\ reprocessed = 0) =>
    /\ progress.delivered_items =
         Cardinality({i \in DOMAIN processed :
                        processed[i].is_backlog /\ processed[i].delivered})
    /\ progress.delivered_items <=
         Cardinality({i \in DOMAIN processed : processed[i].is_backlog})

\* C29: when the set after source diversity has more than 3 deep dives,
\* exactly 3 of them keep the tier, no kept one is shorter than a demoted one,
\* of two equally long ones the kept one came first in the set, and the others
\* are worth_a_look in the composed items and in the store when compose()
\* returns; with 3 deep dives or fewer no tier is changed.
C29_ThreeLongestKept ==
  Recomposed =>
    LET deepIds == {ret.diverse[n].content_id :
                      n \in {k \in 1..Len(ret.diverse) : ret.diverse[k].tier = "deep_dive"}}
        keptIds == {i \in deepIds : processed[i].tier = "deep_dive"}
        Pos(i) == CHOOSE n \in 1..Len(ret.diverse) : ret.diverse[n].content_id = i
        Composed_(i) == {n \in 1..Len(ret.ordered) : ret.ordered[n].content_id = i}
    IN IF Cardinality(deepIds) > 3
       THEN /\ Cardinality(keptIds) = 3
            /\ ret.demoted = deepIds \ keptIds
            /\ \A k \in keptIds, i \in deepIds \ keptIds :
                 /\ content[k].word_count >= content[i].word_count
                 /\ content[k].word_count = content[i].word_count => Pos(k) < Pos(i)
            /\ \A i \in deepIds \ keptIds : processed[i].tier = "worth_a_look"
            /\ \A i \in deepIds : \A n \in Composed_(i) :
                 ret.ordered[n].tier = IF i \in keptIds THEN "deep_dive" ELSE "worth_a_look"
            /\ \A i \in keptIds : Composed_(i) # {}
       ELSE /\ ret.demoted = {}
            /\ \A n \in 1..Len(ret.diverse) :
                 /\ processed[ret.diverse[n].content_id].tier = ret.diverse[n].tier
                 /\ \A k \in Composed_(ret.diverse[n].content_id) :
                      ret.ordered[k].tier = ret.diverse[n].tier

\* C29 witness: five deep dives after source diversity, of which the third
\* and the fourth longest are equally long: the earlier one is kept, the
\* later one is worth_a_look in the briefing and in the store.
C29_Witness ==
  /\ Recomposed
  /\ \E i \in ret.demoted : \E n, k \in 1..Len(ret.ordered) :
       /\ ret.ordered[n].content_id = i
       /\ ret.ordered[n].tier = "worth_a_look"
       /\ processed[i].tier = "worth_a_look"
       /\ ret.ordered[k].tier = "deep_dive"
       /\ content[ret.ordered[k].content_id].word_count = content[i].word_count
  /\ Cardinality({n \in 1..Len(ret.diverse) : ret.diverse[n].tier = "deep_dive"}) = 5

\* C30: in the items of a composed briefing, within a tier group every fresh
\* item comes before every backlog item of that tier.
C30_FreshBeforeBacklogInTier ==
  Recomposed =>
    \A n, k \in 1..Len(ret.ordered) :
      (n < k /\ ret.ordered[n].tier = ret.ordered[k].tier) =>
        ~(ret.ordered[n].is_backlog /\ ~ret.ordered[k].is_backlog)

\* C31: in the items of a composed briefing every deep_dive comes before
\* every worth_a_look and every worth_a_look before every summary_sufficient,
\* and item_ids holds each selected item exactly once and nothing else.
C31_TierOrderAndPermutation ==
  Recomposed =>
    /\ \A n, k \in 1..Len(ret.ordered) :
         n < k => tier_priority(ret.ordered[n].tier) <= tier_priority(ret.ordered[k].tier)
    /\ Len(ret.briefing.item_ids) = Len(ret.selected)
    /\ Range(ret.briefing.item_ids) = {ret.selected[n].content_id : n \in 1..Len(ret.selected)}
    /\ \A n, k \in 1..Len(ret.briefing.item_ids) :
         ret.briefing.item_ids[n] = ret.briefing.item_ids[k] => n = k
    /\ Range(ret.ordered) = Range(ret.selected)

\* C31 witness: a composed briefing with items of all three tiers whose order
\* differs from the order of the selected set.
C31_Witness ==
  /\ Recomposed
  /\ \A t \in VALID_TIERS : \E n \in 1..Len(ret.ordered) : ret.ordered[n].tier = t
  /\ ret.ordered # ret.selected
  /\ Len(ret.ordered) >= NSmall

Deferred == {ret.pool[n].content_id : n \in 1..Len(ret.pool)} \ Range(ret.briefing.item_ids)

\* the ids the pool queries of a compose() for a date without a briefing
\* would return now
PoolsNow ==
  LET fresh_pool == get_undelivered_fresh(MAX_AGE_WEEKS)
      backlog_pool == get_undelivered_backlog(backlog_target(Len(fresh_pool)))
  IN {fresh_pool[n].content_id : n \in 1..Len(fresh_pool)}
       \cup {backlog_pool[n].content_id : n \in 1..Len(backlog_pool)}

\* save_and_deliver(b) as a step: delivered is set for the items of b.item_ids
\* and no other row changes
DeliversExactlyItemIds ==
  lastOp = "compose" /\ lastOp' = "save_and_deliver" =>
    \A i \in DOMAIN processed :
      /\ processed'[i].delivered = (processed[i].delivered \/ i \in Range(ret.briefing.item_ids))
      /\ i \notin Range(ret.briefing.item_ids) => processed'[i] = processed[i]

\* after save_and_deliver(b), an item left out of b is undelivered and in
\* the pools if it meets the predicate of one of them
DeferredStayInPool ==
  lastOp = "save_and_deliver" /\ ret.recomputed =>
    LET pools == PoolsNow
    IN \A i \in Deferred :
         /\ ~processed[i].delivered
         /\ LET fresh == /\ ~processed[i].is_backlog
                         /\ processed[i].freshness # "stale"
                         /\ content[i].published_at >= now - 7 * MAX_AGE_WEEKS
                backlog == processed[i].is_backlog /\ processed[i].freshness = "evergreen"
            IN fresh \/ backlog => i \in pools

\* C33: save_and_deliver(b) sets delivered for exactly the items of b.item_ids
\* and changes no other item's flag; after it, an item that source diversity
\* or the global cap left out of b is undelivered, and the pool query of a
\* later compose() returns it if it still meets that pool's predicate.
C33_DeferredItemsComeBack == [][DeliversExactlyItemIds]_vars /\ []DeferredStayInPool

\* C33 witness: a briefing was saved whose compose() had left out a fresh and
\* a backlog item, and other items are delivered.
C33_Witness ==
  /\ lastOp = "save_and_deliver" /\ ret.recomputed
  /\ \E i, k \in Deferred : processed[i].is_backlog /\ ~processed[k].is_backlog
  /\ \E i \in DOMAIN processed : processed[i].delivered

\* the undelivered, backlog-flagged, evergreen items with a valid tier
Waiting ==
  {i \in DOMAIN processed :
     /\ ~processed[i].delivered
     /\ processed[i].is_backlog
     /\ processed[i].freshness = "evergreen"
     /\ processed[i].tier \in VALID_TIERS}

\* a send-briefing that composed while a backlog item was waiting goes on to
\* deliver at least one item
DeliversWhileWaiting ==
  (lastOp = "compose" /\ Waiting # {}) =>
    /\ lastOp' = "save_and_deliver"
    /\ \E i \in DOMAIN processed : ~processed[i].delivered /\ processed'[i].delivered

\* an item stops waiting only by being delivered, and none starts to wait
WaitingEndsByDelivery ==
  /\ Waiting' \subseteq Waiting
  /\ \A i \in Waiting \ Waiting' : processed'[i].delivered

\* C40: with no new items and the daily cycle (compose for the new date, then
\* save_and_deliver if total_count > 0) repeated day after day, every
\* undelivered, backlog-flagged, evergreen item with a valid tier is
\* eventually delivered, and as long as there is such an item every cycle
\* delivers at least one item.
C40_BacklogDrains ==
  /\ (Waiting # {}) ~> (Waiting = {})
  /\ [][WaitingEndsByDelivery]_vars
  /\ [][DeliversWhileWaiting]_vars

\* C40 witness: on the fourth day or later the last waiting items of a store
\* of NLarge backlog items have been delivered, two of them or fewer.
C40_Witness ==
  /\ now >= 4
  /\ lastOp = "save_and_deliver"
  /\ Waiting = {}
  /\ ret.briefing.backlog_count \in 1..2
  /\ Cardinality({i \in DOMAIN processed : processed[i].is_backlog}) = NLarge

(***************************************************************************)
(* The sequential processing path: cli.py process --all, that is           *)
(* Summarizer.process_pending over LLMClient and the two provider clients. *)
(***************************************************************************)
\* what the provider does on the first, second and third call of one generate()
CallScripts ==
  {<<"ok", "ok", "ok">>,
   <<"bad_json", "ok", "ok">>,
   <<"rate_limit", "rate_limit", "rate_limit">>,
   <<"zero_quota", "ok", "ok">>,
   <<"error", "server_error", "bad_json">>,
   <<"timeout", "ok", "ok">>,
   <<"server_error", "timeout", "ok">>}

\* GeminiClient.generate and OpenAIClient.generate from the given attempt on:
\* "result", "none" (None returned) or "raised" (the timeout error re-raised)
RECURSIVE ClientGenerate(_, _, _)
ClientGenerate(prov, script, attempt) ==
  IF attempt >= MAX_RETRIES THEN "none"
  ELSE LET outcome == script[attempt + 1]
       IN IF outcome = "ok" THEN "result"
          ELSE IF outcome = "timeout" THEN "raised"
          ELSE IF outcome = "zero_quota" /\ prov = "gemini" THEN "none"
          ELSE ClientGenerate(prov, script, attempt + 1)

\* a wrapper that swaps the roles as soon as the primary has returned None
LLMClientGenerateSwappingEarly(l, pscript, fscript) ==
  LET p == ClientGenerate(l.primary, pscript, 0)
      f == ClientGenerate(l.fallback, fscript, 0)
      first == <<[prov |-> l.primary, res |-> p]>>
      both == first \o <<[prov |-> l.fallback, res |-> f]>>
  IN IF p # "none" THEN [res |-> p, llm |-> l, calls |-> first]
     ELSE IF l.fallback = "none" THEN [res |-> "none", llm |-> l, calls |-> first]
     ELSE [res |-> f, llm |-> [primary |-> l.fallback, fallback |-> l.primary],
           calls |-> both]

\* LLMClient.generate: the outcome, the client's roles afterwards and the
\* providers' generate() calls made, each with what it returned
LLMClientGenerate(l, pscript, fscript) ==
  LET p == ClientGenerate(l.primary, pscript, 0)
      f == ClientGenerate(l.fallback, fscript, 0)
      first == <<[prov |-> l.primary, res |-> p]>>
      both == first \o <<[prov |-> l.fallback, res |-> f]>>
  IN IF p # "none" THEN [res |-> p, llm |-> l, calls |-> first]
     ELSE IF l.fallback = "none" THEN [res |-> "none", llm |-> l, calls |-> first]
     ELSE IF f = "result"
       THEN [res |-> "result", llm |-> [primary |-> l.fallback, fallback |-> l.primary],
             calls |-> both]
     ELSE [res |-> f, llm |-> l, calls |-> both]

\* the record of a generate() of the client: g is what LLMClientGenerate gave
Logged(g) ==
  [first |-> llmLog.first, before |-> llm, after |-> g.llm, calls |-> g.calls, res |-> g.res,
   last_ok |-> IF g.res = "result" THEN g.calls[Len(g.calls)].prov ELSE llmLog.last_ok]

\* process_pending(): get_pending_content and the statistics
ProcessPendingStart(limit) ==
  /\ syncPc = "idle"
  /\ pendingList' = get_pending_content(limit)
  /\ syncStats' = [processed |-> 0, failed |-> 0, skipped |-> 0,
                   total |-> Len(get_pending_content(limit))]
  /\ timedOut' = {}
  /\ syncPc' = "running"
  /\ UNCHANGED <<storeVars, llm, llmLog, engineVars, historyVars, composerVars, generateVars, calibrateVars, sendVars, truncVars, reportVars>>

\* process_pending(): one turn of the loop, with process_item and the client's
\* generate() inside it; an exception the client raises is caught nowhere
ProcessPendingItem(pscript, fscript, data) ==
  /\ syncPc = "running"
  /\ pendingList # <<>>
  /\ LET i == Head(pendingList)
         g == LLMClientGenerate(llm, pscript, fscript)
         after == process_item(i, IF g.res = "result" THEN data ELSE None)
     IN IF PreFilter(content[i]) # "processable"
        THEN /\ content' = after.content
             /\ syncStats' = [syncStats EXCEPT !.skipped = @ + 1]
             /\ pendingList' = Tail(pendingList)
             /\ UNCHANGED <<processed, llm, llmLog, timedOut, syncPc>>
        ELSE IF g.res = "raised"
        THEN /\ syncPc' = "raised"
             /\ timedOut' = timedOut \cup {i}
             /\ llmLog' = Logged(g)
             /\ UNCHANGED <<content, processed, llm, syncStats, pendingList>>
        ELSE /\ content' = after.content
             /\ processed' = after.processed
             /\ llm' = g.llm
             /\ llmLog' = Logged(g)
             /\ syncStats' = IF after.result # None
                             THEN [syncStats EXCEPT !.processed = @ + 1]
                             ELSE [syncStats EXCEPT !.failed = @ + 1]
             /\ pendingList' = Tail(pendingList)
             /\ UNCHANGED <<timedOut, syncPc>>
  /\ UNCHANGED <<now, engineVars, historyVars, composerVars, generateVars, calibrateVars, sendVars, truncVars, reportVars>>

\* process_pending(): the loop is over, the statistics are returned
ProcessPendingReturn ==
  /\ syncPc = "running"
  /\ pendingList = <<>>
  /\ syncPc' = "returned"
  /\ UNCHANGED <<storeVars, pendingList, syncStats, timedOut, llm, llmLog>>
  /\ UNCHANGED <<engineVars, historyVars, composerVars, generateVars, calibrateVars, sendVars, truncVars, reportVars>>

\* the command is run again, with a new client
ProcessAgain(l) ==
  /\ syncPc \in {"returned", "raised"}
  /\ syncPc' = "idle"
  /\ pendingList' = <<>>
  /\ llm' = l
  /\ llmLog' = NoGenerate(l)
  /\ UNCHANGED <<storeVars, syncStats, timedOut>>
  /\ UNCHANGED <<engineVars, historyVars, composerVars, generateVars, calibrateVars, sendVars, truncVars, reportVars>>

InitSync ==
  /\ \E kinds \in [1..NItems -> ItemKinds] : content = PendingStore(kinds)
  /\ processed = <<>>
  /\ now = 0
  /\ progress = None
  /\ IdleEngine(1..NItems)
  /\ IdleComposer
  /\ \E k \in DOMAIN LLMClients : IdleSync(LLMClients[k])

NextSync ==
  \/ \E limit \in 0..1 : ProcessPendingStart(limit)
  \/ \E ps \in CallScripts, fs \in CallScripts, d \in Responses : ProcessPendingItem(ps, fs, d)
  \/ ProcessPendingReturn
  \/ \E k \in DOMAIN LLMClients : ProcessAgain(LLMClients[k])

SpecSync == InitSync /\ [][NextSync]_vars

\* C9: a provider call that exceeds the request timeout is not retried, its
\* item ends with status failed, and the rest of the batch is still processed:
\* the run is not aborted.
C9_TimeoutFailsOnlyItsItem ==
  /\ timedOut # {} => syncPc # "raised"
  /\ syncPc \in {"returned", "raised"} =>
       /\ \A i \in timedOut : content[i].status = "failed"
       /\ pendingList = <<>>

\* C39: in the wrapper with two providers, generate() calls the fallback only
\* after the primary returned no result, returns None only if both returned
\* None, and swaps the roles exactly when the primary failed and the fallback
\* succeeded; after any sequence of generate() calls the provider tried first
\* is the one that most recently returned a result, the initial primary if
\* none has.
C39_FallbackAndSwap ==
  /\ llm.primary = IF llmLog.last_ok = "none" THEN llmLog.first ELSE llmLog.last_ok
  /\ (llmLog.calls # <<>> /\ llmLog.before.fallback # "none") =>
       LET calls == llmLog.calls
           swapped == llmLog.after = [primary |-> llmLog.before.fallback,
                                      fallback |-> llmLog.before.primary]
       IN /\ calls[1].prov = llmLog.before.primary
          /\ Len(calls) <= 2
          /\ Len(calls) = 2 => calls[1].res = "none" /\ calls[2].prov = llmLog.before.fallback
          /\ llmLog.res = "none" => Len(calls) = 2 /\ calls[1].res = "none" /\ calls[2].res = "none"
          /\ swapped <=> (calls[1].res # "result" /\ Len(calls) = 2 /\ calls[2].res = "result")
          /\ ~swapped => llmLog.after = llmLog.before

\* C39 witness: a client made with Gemini first has OpenAI first after a
\* fallback that succeeded, and in its last generate() OpenAI, tried first,
\* returned None and Gemini, the fallback by then, returned None as well.
C39_Witness ==
  /\ llmLog.first = "gemini"
  /\ llm = [primary |-> "openai", fallback |-> "gemini"]
  /\ llmLog.before = llm
  /\ llmLog.last_ok = "openai"
  /\ llmLog.res = "none"
  /\ Len(llmLog.calls) = 2

(***************************************************************************)
(* Fitting a prompt into a provider's context window: process_item and     *)
(* process_one build the prompt, truncate the transcript when the prompt   *)
(* is estimated too long, and hand the prompt to generate().  A text is a  *)
(* sequence of runs of one character, <<[c |-> "a", n |-> 3], [c |-> ".",  *)
(* n |-> 1]>> being "aaa."; neighbouring runs have different characters.   *)
(* The prompt template around the transcript counts by its length only.    *)
(***************************************************************************)
\* GeminiClient.MAX_INPUT_TOKENS, OpenAIClient.MAX_INPUT_TOKENS and the same
\* two numbers of the async callers
MAX_INPUT_TOKENS(prov) == IF prov = "gemini" THEN 900000 ELSE 120000

\* "\n\n[Content truncated due to length]": 35 characters, none of them a
\* period, a space after a period or a character of the transcripts here
TRUNCATION_MARKER == <<[c |-> "marker", n |-> 35]>>

\* len(text)
RECURSIVE TextLen(_)
TextLen(text) == IF text = <<>> THEN 0 ELSE text[1].n + TextLen(Tail(text))

\* text[:k] for k >= 0
RECURSIVE Slice(_, _)
Slice(text, k) ==
  IF text = <<>> \/ k <= 0 THEN <<>>
  ELSE IF text[1].n >= k THEN <<[c |-> text[1].c, n |-> k]>>
  ELSE <<text[1]>> \o Slice(Tail(text), k - text[1].n)

\* text.rfind('. '): the index of the last period that a space follows, or -1
rfind_period_space(text) ==
  LET at == {TextLen(SubSeq(text, 1, i)) - 1 :
               i \in {j \in 1..(Len(text) - 1) : text[j].c = "." /\ text[j + 1].c = " "}}
  IN IF at = {} THEN -1 ELSE CHOOSE q \in at : \A r \in at : r <= q

\* estimate_tokens, of a length in characters
estimate_tokens(length) == length \div 4

\* a cut that stops before the period it found
TruncatedBeforePeriod(text, max_tokens) ==
  LET max_chars == max_tokens * 4
      truncated == Slice(text, max_chars)
      last_period == rfind_period_space(truncated)
  IN IF 5 * last_period > 4 * max_chars THEN Slice(truncated, last_period)
     ELSE truncated

\* truncate_for_context, the text it keeps of one that is too long:
\* last_period > max_chars * 0.8 is a comparison of an integer with a double;
\* max_chars is a multiple of 4, the product is within 2^-54 of 4 * max_chars /
\* 5 relatively and so rounds to it when that is an integer and lies strictly
\* between its neighbouring integers otherwise: the comparison is the exact one
Truncated(text, max_tokens) ==
  LET max_chars == max_tokens * 4
      truncated == Slice(text, max_chars)
      last_period == rfind_period_space(truncated)
  IN IF 5 * last_period > 4 * max_chars THEN Slice(truncated, last_period + 1)
     ELSE truncated

\* GeminiClient / OpenAIClient / AsyncGeminiCaller / AsyncOpenAICaller
\* .truncate_for_context with max_tokens given
truncate_for_context(text, max_tokens) ==
  IF estimate_tokens(TextLen(text)) <= max_tokens THEN text
  ELSE Truncated(text, max_tokens) \o TRUNCATION_MARKER

\* len(build_summarization_prompt(item)): the template with the transcript
\* put in
PromptLength(template, text) == template + TextLen(text)

\* the lengths of the template with an item's title and length filled in
TemplateLengths == {6000, 6001, 6002, 6003}

\* the LLMClient as constructed, and with OpenAI moved to the front by an
\* earlier fallback
TruncClients == Range(LLMClients) \cup {[primary |-> "openai", fallback |-> "gemini"]}

\* one stretch of letters
Letters(n) == IF n > 0 THEN <<[c |-> "a", n |-> n]>> ELSE <<>>

\* a sentence of n characters, its period with the index n - 1
Sentence(n) == Letters(n - 1) \o <<[c |-> ".", n |-> 1]>>

\* transcripts about as long as a window of max_chars characters: without a
\* period, and with one period and a space at places around the window's end
\* and around four fifths of it
LongTexts(max_chars) ==
  {Letters(max_chars + d) : d \in {-4, 0, 1, 3, 4, 40}}
    \cup {Sentence(q + 1) \o <<[c |-> " ", n |-> 1]>> \o Letters(max_chars + d - q - 2) :
            q \in {max_chars - 50, max_chars - 36, max_chars - 2, max_chars - 1,
                   (4 * max_chars) \div 5, (4 * max_chars) \div 5 + 1},
            d \in {4, 40}}

\* the budgets of the direct calls of truncate_for_context
SmallBudgets == {0, 3, 5}

\* short transcripts: one or two sentences and a tail, the periods single or
\* double, followed by a space or not
ShortTexts ==
  {Sentence(x) \o t \o Letters(y) :
     x \in 2..20, y \in {1, 12, 24},
     t \in {<<[c |-> " ", n |-> 1]>>, <<>>, <<[c |-> ".", n |-> 1], [c |-> " ", n |-> 2]>>}}
    \cup {Sentence(x) \o <<[c |-> " ", n |-> 1]>> \o Sentence(y) \o <<[c |-> " ", n |-> 1]>> \o Letters(10) :
            x \in {4, 9}, y \in 2..10}
    \cup {Letters(x) : x \in {3, 16, 30}}

InitTruncate ==
  /\ content = PendingStore([i \in 1..NItems |-> [transcript |-> "text", word_count |-> 2000]])
  /\ processed = <<>>
  /\ now = 0
  /\ progress = None
  /\ IdleComposer
  /\ IdleSync(LLMClients[1])
  /\ \E l \in TruncClients, template \in TemplateLengths :
       \E text \in ShortTexts
                     \cup LongTexts(4 * (MAX_INPUT_TOKENS(l.primary) - estimate_tokens(template)))
                     \cup {Letters(4 * MAX_INPUT_TOKENS("openai"))} :
         trunc = [llm |-> l, template |-> template, text |-> text, pc |-> "start",
                  budget |-> 0, kept |-> <<>>, out |-> <<>>, prompt |-> 0, sent |-> <<>>]
  /\ runPc = "start" /\ runNo = 1 /\ args = NoArgs /\ processable = <<>>
  /\ callers = [gemini |-> FALSE, openai |-> FALSE]
  /\ worker = <<>> /\ sem = [gemini |-> 0, openai |-> 0]
  /\ db_queue = <<>> /\ unfinished = 0 /\ writerPc = "none" /\ stats = ZeroStats
  /\ loaded = {} /\ enqueued = [i \in 1..NItems |-> 0]
  /\ applied = [i \in 1..NItems |-> 0]
  /\ storeWrites = {} /\ faulted = {} /\ lost = {}
  /\ available = [gemini |-> FALSE, openai |-> FALSE]
  /\ skip_reasons = NoSkips /\ gen = NoCall /\ cal = NoCalibration

\* a call of truncate_for_context(text, max_tokens)
TruncateForContext(max_tokens) ==
  /\ trunc.pc = "start"
  /\ LET out == truncate_for_context(trunc.text, max_tokens)
     IN trunc' = [trunc EXCEPT !.pc = IF out = trunc.text THEN "kept_whole" ELSE "truncated",
                               !.budget = max_tokens,
                               !.out = out,
                               !.kept = IF out = trunc.text THEN trunc.text
                                        ELSE Truncated(trunc.text, max_tokens)]
  /\ UNCHANGED <<storeVars, engineVars, historyVars, composerVars, syncVars, generateVars,
                 calibrateVars, sendVars, reportVars>>

\* process_item up to its generate() (process_one likewise, with the caller's
\* numbers): the prompt, with the transcript truncated if the prompt is
\* estimated longer than the client's MAX_INPUT_TOKENS, the primary's
ProcessItemPrompt ==
  /\ trunc.pc = "start"
  /\ LET prompt == PromptLength(trunc.template, trunc.text)
         limit == MAX_INPUT_TOKENS(trunc.llm.primary)
         max_transcript_tokens == limit - estimate_tokens(trunc.template)
         truncated_transcript == truncate_for_context(trunc.text, max_transcript_tokens)
     IN IF estimate_tokens(prompt) > limit
        THEN trunc' = [trunc EXCEPT !.pc = IF truncated_transcript = trunc.text
                                           THEN "built" ELSE "built_truncated",
                                    !.budget = max_transcript_tokens,
                                    !.out = truncated_transcript,
                                    !.kept = IF truncated_transcript = trunc.text THEN trunc.text
                                             ELSE Truncated(trunc.text, max_transcript_tokens),
                                    !.prompt = PromptLength(trunc.template, truncated_transcript)]
        ELSE trunc' = [trunc EXCEPT !.pc = "built", !.out = trunc.text, !.kept = trunc.text,
                                    !.prompt = prompt]
  /\ UNCHANGED <<storeVars, engineVars, historyVars, composerVars, syncVars, generateVars,
                 calibrateVars, sendVars, reportVars>>

\* process_item's self.client.generate(prompt): LLMClient.generate hands the
\* prompt to the primary and, if that returns None, the same prompt to the
\* fallback
ProcessItemGenerate(pscript, fscript) ==
  /\ trunc.pc \in {"built", "built_truncated"}
  /\ LET g == LLMClientGenerate(trunc.llm, pscript, fscript)
         tokens == estimate_tokens(trunc.prompt)
         to_primary == <<[prov |-> trunc.llm.primary, tokens |-> tokens]>>
         to_fallback == IF ClientGenerate(trunc.llm.primary, pscript, 0) = "none"
                           /\ trunc.llm.fallback # "none"
                        THEN <<[prov |-> trunc.llm.fallback, tokens |-> tokens]>>
                        ELSE <<>>
     IN trunc' = [trunc EXCEPT !.pc = "sent", !.llm = g.llm,
                               !.sent = to_primary \o to_fallback]
  /\ UNCHANGED <<storeVars, engineVars, historyVars, composerVars, syncVars, generateVars,
                 calibrateVars, sendVars, reportVars>>

NextTruncate ==
  \/ \E max_tokens \in SmallBudgets : TruncateForContext(max_tokens)
  \/ ProcessItemPrompt
  \/ \E ps \in CallScripts, fs \in CallScripts : ProcessItemGenerate(ps, fs)

SpecTruncate == InitTruncate /\ [][NextTruncate]_vars

\* the last character of a text
LastChar(text) == IF text = <<>> THEN "" ELSE text[Len(text)].c

\* kept is the start of text
IsPrefix(kept, text) == Slice(text, TextLen(kept)) = kept

\* the lengths of the starts of a text that end with a period which a space
\* follows in the text
PeriodEnds(text) ==
  {TextLen(SubSeq(text, 1, i)) :
     i \in {j \in 1..(Len(text) - 1) : text[j].c = "." /\ text[j + 1].c = " "}}

\* a truncate_for_context call has cut the transcript
Cut == trunc.pc \in {"truncated", "built_truncated", "sent"} /\ trunc.out # trunc.text

\* C37: every prompt passed to a provider's generate() has an estimated token
\* count (length // 4) of at most that provider's MAX_INPUT_TOKENS, after a
\* truncation with its marker and also when the fallback is given the prompt
\* sized for the primary.
C37_PromptWithinProviderLimit ==
  \A k \in 1..Len(trunc.sent) :
    trunc.sent[k].tokens <= MAX_INPUT_TOKENS(trunc.sent[k].prov)

\* C38 as stated: whenever a transcript is truncated to a token budget, the
\* kept text is a prefix of the transcript that ends directly after a
\* sentence-ending period, for every transcript and every budget.
C38_CutAtSentenceBoundary ==
  Cut => IsPrefix(trunc.kept, trunc.text) /\ LastChar(trunc.kept) = "."

\* C38 as amended: whenever a transcript is truncated to a budget of
\* max_tokens, the kept text is a prefix of the transcript of at most
\* 4 * max_tokens characters, followed by the marker; it ends directly after
\* the last period followed by a space within the first 4 * max_tokens
\* characters if that period lies beyond 80% of them, and is the first
\* 4 * max_tokens characters otherwise.
C38_CutAtLatePeriodOrBudget ==
  Cut =>
    LET max_chars == 4 * trunc.budget
        periods == {n \in PeriodEnds(trunc.text) : n + 1 <= max_chars}
        late == {n \in periods : 5 * (n - 1) > 4 * max_chars}
    IN /\ IsPrefix(trunc.kept, trunc.text)
       /\ TextLen(trunc.kept) <= max_chars
       /\ trunc.out = trunc.kept \o TRUNCATION_MARKER
       /\ IF late # {}
          THEN /\ TextLen(trunc.kept) \in late
               /\ \A n \in periods : n <= TextLen(trunc.kept)
               /\ LastChar(trunc.kept) = "."
          ELSE TextLen(trunc.kept) = max_chars

\* C38 witness: a direct call with a budget of 5 tokens has cut a transcript
\* after the period with the index 17, and the kept text is 18 characters.
C38_Witness ==
  /\ Cut
  /\ trunc.budget = 5
  /\ TextLen(trunc.kept) = 18
  /\ LastChar(trunc.kept) = "."
  /\ TextLen(trunc.text) >= 24

====
